---- MODULE Spec2Model ----
(***************************************************************************)
(* State-machine model of the labJ client synchronization core:            *)
(*   - the Notebook Synchronizer (NotebookView + TiptapEditor), and        *)
(*   - the Session Directory (LeftSidebar).                                *)
(* Strings are sequences of one-character strings; rendered markup is a    *)
(* sequence of tokens in which every markup tag and every escaped entity   *)
(* is one token.                                                           *)
(***************************************************************************)
EXTENDS Integers, Sequences, FiniteSets, Bags, TLC

VARIABLES
    \* ---- Layout (shared props)
    searchTerm,        \* Layout.searchTerm
    reverseSessions,   \* Layout.reverseSessions
    \* ---- NotebookView
    nbSessions,        \* NotebookView.sessions: last fetched notebook
    sessionState,      \* NotebookView.sessionState: id -> [html, dirty]
    nbMounted,         \* the `mounted` flag of NotebookView's effect
    nbFetches,         \* bag of fetchNotebook() responses in flight
    nbRefreshTerm,     \* the searchTerm captured by the effect's closure
    srvNotebook,       \* backend: id -> [present, blocks]
    \* ---- LeftSidebar
    sessions,          \* LeftSidebar.sessions
    activeSessionId,   \* LeftSidebar.activeSessionId
    editingId,         \* LeftSidebar.editingId
    titleDraft,        \* LeftSidebar.titleDraft
    favoriteIds,       \* LeftSidebar.favoriteIds
    mounted,           \* LeftSidebar is mounted
    fetches,           \* bag of directory fetches in flight
    pending,           \* bag of archive mutations in flight
    renames,           \* bag of updateSessionTitle calls in flight
    srvSessions,       \* backend: id -> [title, isArchived]
    storage,           \* localStorage: the "labj_favorites" entry
    unhandled,         \* a rejection escaped a handler of LeftSidebar
    \* ---- observation
    last               \* the handler that ran last, with its inputs

nbVars  == <<nbSessions, sessionState, nbMounted, nbFetches, nbRefreshTerm,
            srvNotebook>>
dirVars == <<sessions, activeSessionId, editingId, titleDraft, favoriteIds,
             mounted, fetches, pending, renames, srvSessions, storage>>
vars    == <<searchTerm, reverseSessions, nbVars, dirVars, unhandled, last>>

\* ------------------------------------------------------------------ bounds
MaxNbFetch == 2
MaxFetch   == 1
MaxPending == 1
MaxRename  == 1

Ids  == {1, 2}

\* activeSessionId holds null, a string (handleSelectSession stores String(id))
\* or a number (refresh stores the backend's numeric id)
NoId     == [t |-> "null", v |-> 0]
StrId(n) == [t |-> "str", v |-> n]
NumId(n) == [t |-> "num", v |-> n]

\* editingId holds null or Number(session.id); a session's id may be 0
NoEditing == -1

\* !editingId: null and 0 are falsy
Falsy(n) == n = NoEditing \/ n = 0

\* !activeSessionId: null and the number 0 are falsy, the string "0" is not
NoActive(a) == a = NoId \/ a = NumId(0)

\* The record kept in `last`: the handler that ran, the session it ran for
\* and its input. Steps no property observes leave Other.
Ev(op, id, arg, flag) == [op |-> op, id |-> id, arg |-> arg, flag |-> flag]
Other == Ev("other", 0, <<>>, FALSE)

\* ------------------------------------------------------------- sequences
RECURSIVE Concat(_)
Concat(ss) == IF ss = <<>> THEN <<>> ELSE Head(ss) \o Concat(Tail(ss))

RECURSIVE Join(_, _)
Join(ss, sep) ==
    IF ss = <<>> THEN <<>>
    ELSE IF Len(ss) = 1 THEN ss[1]
    ELSE ss[1] \o sep \o Join(Tail(ss), sep)

Digits == <<"0", "1", "2", "3", "4", "5", "6", "7", "8", "9">>

\* the decimal digits of a number, as String(n) prints it
RECURSIVE NumToStr(_)
NumToStr(n) ==
    IF n < 10 THEN <<Digits[n + 1]>>
    ELSE NumToStr(n \div 10) \o <<Digits[(n % 10) + 1]>>

\* ------------------------------------------------- TiptapEditor: rendering
MarkOpen  == "<mark class=\"search-highlight\">"
MarkClose == "</mark>"

IsSpace(c) == c = " "

RECURSIVE TrimStart(_)
TrimStart(s) ==
    IF s # <<>> /\ IsSpace(Head(s)) THEN TrimStart(Tail(s)) ELSE s

RECURSIVE TrimEnd(_)
TrimEnd(s) ==
    IF s # <<>> /\ IsSpace(s[Len(s)]) THEN TrimEnd(SubSeq(s, 1, Len(s) - 1)) ELSE s

\* String.prototype.trim
Trim(s) == TrimEnd(TrimStart(s))

\* the "i" flag: letters compare by their lower-case form
Lower(c) == CASE c = "A" -> "a" [] c = "B" -> "b" [] OTHER -> c

EscapeChar(c) == CASE c = "<" -> "&lt;" [] c = ">" -> "&gt;" [] OTHER -> c

escapeHtml(text) == [i \in 1..Len(text) |-> EscapeChar(text[i])]

\* the characters of /[.*+?^${}()|[\]\\]/
RegexMeta == {".", "*", "+", "?", "^", "$", "{", "}", "(", ")", "|", "[", "]", "\\"}

\* the query used as the pattern without escaping
EscapeRegExp_None(query) == query

\* query.replace(/[.*+?^${}()|[\]\\]/g, "\\$&")
EscapeRegExp(query) ==
    Concat([i \in 1..Len(query) |->
              IF query[i] \in RegexMeta THEN <<"\\", query[i]>> ELSE <<query[i]>>])

\* new RegExp(escaped, "gi"): the pattern as a sequence of atoms. A backslash
\* makes the next character a literal; an unescaped "." matches any character.
RECURSIVE CompileRegExp(_)
CompileRegExp(p) ==
    IF p = <<>> THEN <<>>
    ELSE IF Head(p) = "\\" /\ Len(p) >= 2
         THEN <<[any |-> FALSE, ch |-> p[2]]>> \o CompileRegExp(SubSeq(p, 3, Len(p)))
    ELSE IF Head(p) = "."
         THEN <<[any |-> TRUE, ch |-> "."]>> \o CompileRegExp(Tail(p))
    ELSE <<[any |-> FALSE, ch |-> Head(p)]>> \o CompileRegExp(Tail(p))

AtomMatches(atom, c) == atom.any \/ Lower(atom.ch) = Lower(c)

\* the pattern matches text at index i (1-based)
MatchAt(re, text, i) ==
    /\ i + Len(re) - 1 <= Len(text)
    /\ \A k \in 1..Len(re) : AtomMatches(re[k], text[i + k - 1])

\* the while ((match = re.exec(text)) !== null) loop: i is the scan position,
\* lastIndex the end of the previous match, result the output so far
RECURSIVE HighlightLoop(_, _, _, _, _)
HighlightLoop(re, text, i, lastIndex, result) ==
    IF i + Len(re) - 1 > Len(text)
    THEN result \o escapeHtml(SubSeq(text, lastIndex, Len(text)))
    ELSE IF MatchAt(re, text, i)
    THEN HighlightLoop(re, text, i + Len(re), i + Len(re),
             result \o escapeHtml(SubSeq(text, lastIndex, i - 1))
                    \o <<MarkOpen>>
                    \o escapeHtml(SubSeq(text, i, i + Len(re) - 1))
                    \o <<MarkClose>>)
    ELSE HighlightLoop(re, text, i + 1, lastIndex, result)

\* a highlight that scans and copies the lower-cased text
highlightText_Lowered(text, term) ==
    LET query == Trim(term) IN
    IF query = <<>> THEN escapeHtml(text)
    ELSE HighlightLoop(CompileRegExp(EscapeRegExp(query)),
                       [i \in 1..Len(text) |-> Lower(text[i])], 1, 1, <<>>)

highlightText(text, term) ==
    LET query == Trim(term) IN
    IF query = <<>> THEN escapeHtml(text)
    ELSE HighlightLoop(CompileRegExp(EscapeRegExp(query)), text, 1, 1, <<>>)

\* JSON.stringify(b.content) of a payload {text: ...}
JsonStringify(text) == <<"{\"text\":\"">> \o text \o <<"\"}">>

ChartDefault == <<"C", "h", "a", "r", "t">>

BlockToHtml(b, term) ==
    IF b.type = "paragraph"
    THEN <<"<p>">> \o highlightText(b.text, term) \o <<"</p>">>
    ELSE IF b.type = "chart"
    THEN <<"<p>", "[Chart: ">>
         \o escapeHtml(IF b.text = <<>> THEN ChartDefault ELSE b.text)
         \o <<"]", "</p>">>
    ELSE <<"<p>">> \o escapeHtml(JsonStringify(b.text)) \o <<"</p>">>

blocksToHtml(blocks, term) ==
    Join([i \in 1..Len(blocks) |-> BlockToHtml(blocks[i], term)], <<"\n">>)

\* session.blocks.filter((b) => b.type !== "log")
NoLog(blocks) == SelectSeq(blocks, LAMBDA b : b.type # "log")

\* ------------------------------------------------------- backend: notebook
Blk(type, text) == [type |-> type, text |-> text]

\* the block lists the backend may hold for a session
BlockLists(id) ==
    IF id = 1
    THEN { <<Blk("paragraph", <<"a", "<">>)>>,
           <<Blk("paragraph", <<"a", "<">>), Blk("log", <<"x">>)>>,
           <<Blk("chart", <<>>), Blk("paragraph", <<"A">>)>> }
    ELSE { <<Blk("table", <<"t">>)>> }

NotebookChoices(id) ==
    {[present |-> TRUE, blocks |-> b] : b \in BlockLists(id)}
    \cup (IF id = 1 THEN {} ELSE {[present |-> FALSE, blocks |-> <<>>]})

IdOrder == <<1, 2>>

\* GET /notebook: the sessions present, in id order, with their blocks
NotebookData(srv) ==
    LET present == SelectSeq(IdOrder, LAMBDA i : srv[i].present)
    IN  [k \in 1..Len(present) |-> [id |-> present[k], blocks |-> srv[present[k]].blocks]]

\* what the user can type: the editor's HTML after a keystroke
EditContents == { <<"<p>", "x", "</p>">>, <<"<p>", "y", "</p>">> }

SearchTerms == { <<>>, <<"a">> }

\* ------------------------------------------------------------ NotebookView
DataIds(data) == {data[i].id : i \in 1..Len(data)}

BlocksOf(data, id) == data[CHOOSE i \in 1..Len(data) : data[i].id = id].blocks

\* a refresh that renders a session only the first time it is seen
MergeNotebook_FirstOnly(prev, data, term) ==
    [k \in DOMAIN prev \cup DataIds(data) |->
        IF k \in DOMAIN prev THEN prev[k]
        ELSE [html |-> blocksToHtml(BlocksOf(data, k), term), dirty |-> FALSE]]

\* a refresh that keeps only the sessions of the response
MergeNotebook_DropAbsent(prev, data, term) ==
    [k \in DataIds(data) |->
        IF k \notin DOMAIN prev \/ ~prev[k].dirty
        THEN [html |-> blocksToHtml(BlocksOf(data, k), term), dirty |-> FALSE]
        ELSE prev[k]]

\* refresh without the `!existing.dirty` test
MergeNotebook_IgnoreDirty(prev, data, term) ==
    [k \in DOMAIN prev \cup DataIds(data) |->
        IF k \in DataIds(data)
        THEN [html |-> blocksToHtml(BlocksOf(data, k), term), dirty |-> FALSE]
        ELSE prev[k]]

\* the setSessionState updater of refresh
MergeNotebook(prev, data, term) ==
    [k \in DOMAIN prev \cup DataIds(data) |->
        IF k \in DataIds(data) /\ (k \notin DOMAIN prev \/ ~prev[k].dirty)
        THEN [html |-> blocksToHtml(BlocksOf(data, k), term), dirty |-> FALSE]
        ELSE prev[k]]

\* onChange without the `...prev` spread
onChange_DropOthers(prev, id, html) ==
    [k \in {id} |-> [html |-> html, dirty |-> TRUE]]

\* the setSessionState updater of the editor's onChange prop
onChange(prev, id, html) ==
    [k \in DOMAIN prev \cup {id} |->
        IF k = id THEN [html |-> html, dirty |-> TRUE] ELSE prev[k]]

\* onUpdate without the isFocused test
EditorUpdate_NoFocusCheck(prev, id, nextHtml, isFocused) ==
    onChange(prev, id, nextHtml)

\* the body of TiptapEditor's onUpdate: onChange only with input focus
EditorUpdate(prev, id, nextHtml, isFocused) ==
    IF isFocused THEN onChange(prev, id, nextHtml) ELSE prev

\* a poll tick (or the refresh() of mount): the request reaches the backend
NbTick ==
    /\ nbMounted
    /\ BagCardinality(nbFetches) < MaxNbFetch
    /\ nbFetches' = nbFetches (+) SetToBag({NotebookData(srvNotebook)})
    /\ last' = Other
    /\ UNCHANGED unhandled
    /\ UNCHANGED <<searchTerm, reverseSessions, nbSessions, sessionState, nbMounted, nbRefreshTerm,
                   srvNotebook, dirVars>>

\* fetchNotebook().then(...)
NbFetchResolve(data) ==
    /\ BagIn(data, nbFetches)
    /\ nbFetches' = nbFetches (-) SetToBag({data})
    /\ IF nbMounted
       THEN /\ nbSessions' = data
            /\ sessionState' = MergeNotebook(sessionState, data, nbRefreshTerm)
       ELSE UNCHANGED <<nbSessions, sessionState>>
    /\ last' = Ev("nbResolve", 0, nbSessions, nbMounted)
    /\ UNCHANGED unhandled
    /\ UNCHANGED <<searchTerm, reverseSessions, nbMounted, nbRefreshTerm, srvNotebook, dirVars>>

\* fetchNotebook().catch(...): logged
NbFetchFail(data) ==
    /\ BagIn(data, nbFetches)
    /\ nbFetches' = nbFetches (-) SetToBag({data})
    /\ last' = Ev("nbFail", 0, <<>>, FALSE)
    /\ UNCHANGED unhandled
    /\ UNCHANGED <<searchTerm, reverseSessions, nbSessions, sessionState, nbMounted, nbRefreshTerm,
                   srvNotebook, dirVars>>

\* TiptapEditor.onUpdate of the editor of session id
onUpdate(id, nextHtml, isFocused) ==
    /\ nbMounted
    /\ id \in DataIds(nbSessions)
    /\ sessionState' = EditorUpdate(sessionState, id, nextHtml, isFocused)
    /\ last' = Ev("onUpdate", id, nextHtml, isFocused)
    /\ UNCHANGED unhandled
    /\ UNCHANGED <<searchTerm, reverseSessions, nbSessions, nbMounted, nbFetches, nbRefreshTerm,
                   srvNotebook, dirVars>>

\* the cleanup of NotebookView's effect
NbUnmount ==
    /\ nbMounted
    /\ nbMounted' = FALSE
    /\ last' = Other
    /\ UNCHANGED unhandled
    /\ UNCHANGED <<searchTerm, reverseSessions, nbSessions, sessionState, nbFetches, nbRefreshTerm,
                   srvNotebook, dirVars>>

\* the backend's notebook changes (transcription, commands)
ServerNotebookChange(id, c) ==
    /\ c # srvNotebook[id]
    /\ srvNotebook' = [srvNotebook EXCEPT ![id] = c]
    /\ last' = Other
    /\ UNCHANGED unhandled
    /\ UNCHANGED <<searchTerm, reverseSessions, nbSessions, sessionState, nbMounted, nbFetches,
                   nbRefreshTerm, dirVars>>

\* ---------------------------------------------------------- backend: sessions
Title(id) == IF id = 1 THEN <<"a">> ELSE <<"b">>

\* the text contains the query, letters compared case-insensitively
Contains(text, query) ==
    \E i \in 1..(Len(text) + 1) :
        /\ i + Len(query) - 1 <= Len(text)
        /\ \A k \in 1..Len(query) : Lower(text[i + k - 1]) = Lower(query[k])

\* the ids of a set in ascending order
RECURSIVE SortedIds(_)
SortedIds(S) ==
    IF S = {} THEN <<>>
    ELSE LET m == CHOOSE x \in S : \A y \in S : x <= y
         IN  <<m>> \o SortedIds(S \ {m})

\* the isFavorite the backend reports for a session; no call of the client
\* changes it
ServerFavorite(id) == id = 1

\* GET /sessions and GET /search?q=: the summaries of the backend's
\* sessions, in the order of their ids
SessionData(srv, term) ==
    LET query == Trim(term)
        hit   == SelectSeq(SortedIds(DOMAIN srv),
                     LAMBDA i : query = <<>> \/ Contains(srv[i].title, query))
    IN  [k \in 1..Len(hit) |->
            [id |-> hit[k], title |-> srv[hit[k]].title,
             isArchived |-> srv[hit[k]].isArchived,
             isFavorite |-> ServerFavorite(hit[k])]]

\* ------------------------------------------- LeftSidebar: durable favorites
\* The "labj_favorites" entry of localStorage: no entry, a string, or a
\* store whose getItem throws.
Absent       == [kind |-> "absent", text |-> <<>>]
Unreadable   == [kind |-> "throws", text |-> <<>>]
TextEntry(t) == [kind |-> "text", text |-> t]

\* favoriteIds is kept as a set: the order of the ids in the array is not
\* modelled, the array is written in ascending order
\* JSON.stringify of an array of numbers
JsonStringifyIds(ids) ==
    <<"[">> \o Join([i \in 1..Len(ids) |-> NumToStr(ids[i])], <<",">>) \o <<"]">>

IsDigit(c) == \E i \in 1..10 : Digits[i] = c

DigitValue(c) == (CHOOSE i \in 1..10 : Digits[i] = c) - 1

AllDigits(t) == t # <<>> /\ \A i \in 1..Len(t) : IsDigit(t[i])

RECURSIVE StrToNum(_)
StrToNum(ds) ==
    IF ds = <<>> THEN 0
    ELSE StrToNum(SubSeq(ds, 1, Len(ds) - 1)) * 10 + DigitValue(ds[Len(ds)])

\* the parts of t between its commas
RECURSIVE SplitComma(_)
SplitComma(t) ==
    IF \A i \in 1..Len(t) : t[i] # "," THEN <<t>>
    ELSE LET k == CHOOSE i \in 1..Len(t) :
                      t[i] = "," /\ \A j \in 1..(i - 1) : t[j] # ","
         IN  <<SubSeq(t, 1, k - 1)>> \o SplitComma(SubSeq(t, k + 1, Len(t)))

JsonValue(t, n, s) == [t |-> t, n |-> n, s |-> s]
JsonError == JsonValue("error", 0, <<>>)

\* JSON.parse of a text that is a number, a string without escapes, null,
\* true or false; anything else is a SyntaxError
JsonScalar(t) ==
    IF AllDigits(t) /\ (Len(t) = 1 \/ t[1] # "0")
    THEN JsonValue("num", StrToNum(t), <<>>)
    ELSE IF t = <<"n", "u", "l", "l">> THEN JsonValue("null", 0, <<>>)
    ELSE IF t = <<"t", "r", "u", "e">> THEN JsonValue("true", 0, <<>>)
    ELSE IF t = <<"f", "a", "l", "s", "e">> THEN JsonValue("false", 0, <<>>)
    ELSE IF /\ Len(t) >= 2 /\ t[1] = "\"" /\ t[Len(t)] = "\""
            /\ \A i \in 2..(Len(t) - 1) : t[i] \notin {"\"", "\\"}
    THEN JsonValue("str", 0, SubSeq(t, 2, Len(t) - 1))
    ELSE JsonError

\* JSON.parse of a text without white space: an array of scalars, the empty
\* object or a scalar. The result of an array is [t |-> "array", items].
JsonParse(text) ==
    IF Len(text) >= 2 /\ text[1] = "[" /\ text[Len(text)] = "]"
    THEN LET inner == SubSeq(text, 2, Len(text) - 1)
             parts == SplitComma(inner)
             items == [i \in 1..Len(parts) |-> JsonScalar(parts[i])]
         IN  IF inner = <<>> THEN [t |-> "array", items |-> <<>>]
             ELSE IF \E i \in 1..Len(items) : items[i] = JsonError
             THEN [t |-> "error", items |-> <<>>]
             ELSE [t |-> "array", items |-> items]
    ELSE IF text = <<"{", "}">> THEN [t |-> "object", items |-> <<>>]
    ELSE [t |-> JsonScalar(text).t, items |-> <<>>]

\* Number(v) of a parsed scalar; nan: the result is NaN
ToNumber(v) ==
    CASE v.t = "num"   -> [nan |-> FALSE, n |-> v.n]
      [] v.t = "str"   -> IF v.s = <<>> THEN [nan |-> FALSE, n |-> 0]
                          ELSE IF AllDigits(v.s) THEN [nan |-> FALSE, n |-> StrToNum(v.s)]
                          ELSE [nan |-> TRUE, n |-> 0]
      [] v.t = "true"  -> [nan |-> FALSE, n |-> 1]
      [] OTHER         -> [nan |-> FALSE, n |-> 0]

\* parsed.map(Number).filter((n) => !Number.isNaN(n))
NumbersOf(items) ==
    {ToNumber(items[i]).n : i \in {k \in 1..Len(items) : ~ToNumber(items[k]).nan}}

\* loadFavorites without its try/catch: a throwing getItem or JSON.parse
\* escapes
LoadOutcome_NoCatch(entry) ==
    IF entry.kind = "throws" THEN [ids |-> {}, threw |-> TRUE]
    ELSE IF entry.kind = "absent" \/ entry.text = <<>>
    THEN [ids |-> {}, threw |-> FALSE]
    ELSE LET parsed == JsonParse(entry.text)
         IN  IF parsed.t = "error" THEN [ids |-> {}, threw |-> TRUE]
             ELSE IF parsed.t = "array"
             THEN [ids |-> NumbersOf(parsed.items), threw |-> FALSE]
             ELSE [ids |-> {}, threw |-> FALSE]

\* loadFavorites: the ids it returns and whether an exception leaves it
LoadOutcome(entry) ==
    IF entry.kind = "throws" THEN [ids |-> {}, threw |-> FALSE]
    ELSE IF entry.kind = "absent" \/ entry.text = <<>>
    THEN [ids |-> {}, threw |-> FALSE]
    ELSE LET parsed == JsonParse(entry.text)
         IN  IF parsed.t = "error" THEN [ids |-> {}, threw |-> FALSE]
             ELSE IF parsed.t = "array"
             THEN [ids |-> NumbersOf(parsed.items), threw |-> FALSE]
             ELSE [ids |-> {}, threw |-> FALSE]

loadFavorites(entry) == LoadOutcome(entry).ids

\* an effect that adds the new ids to the stored array and removes none
PersistFavorites_Patch(st, favs) ==
    IF st.writable
    THEN [st EXCEPT !.entry =
             TextEntry(JsonStringifyIds(SortedIds(favs \cup loadFavorites(st.entry))))]
    ELSE st

\* the effect of [favoriteIds]: setItem(JSON.stringify(favoriteIds)); a
\* setItem that throws (storage full or disabled) is ignored
PersistFavorites(st, favs) ==
    IF st.writable
    THEN [st EXCEPT !.entry = TextEntry(JsonStringifyIds(SortedIds(favs)))]
    ELSE st

\* --------------------------------------------------------------- LeftSidebar
SessionIds(ss) == {ss[i].id : i \in 1..Len(ss)}

Find(ss, id) == ss[CHOOSE i \in 1..Len(ss) : ss[i].id = id]

\* sessions.find((s) => String(s.id) === String(id))?.isArchived, as a boolean
FindArchived(ss, id) == id \in SessionIds(ss) /\ Find(ss, id).isArchived

\* a merge that keeps the title and isArchived of a session already listed
MergeSessions_KeepLocal(prev, data, favs) ==
    [k \in 1..Len(data) |->
        LET known == data[k].id \in SessionIds(prev) IN
        [id         |-> data[k].id,
         title      |-> IF known THEN Find(prev, data[k].id).title ELSE data[k].title,
         isArchived |-> IF known THEN Find(prev, data[k].id).isArchived
                        ELSE data[k].isArchived,
         isFavorite |-> \/ (known /\ Find(prev, data[k].id).isFavorite)
                        \/ data[k].id \in favs]]

\* a merge that takes the isFavorite of the response
MergeSessions_ServerWins(prev, data, favs) ==
    [k \in 1..Len(data) |->
        [id         |-> data[k].id,
         title      |-> data[k].title,
         isArchived |-> data[k].isArchived,
         isFavorite |-> data[k].isFavorite]]

\* the setSessions updater of refresh: { ...s, isFavorite: ... } replaces
\* the isFavorite of the response
MergeSessions(prev, data, favs) ==
    [k \in 1..Len(data) |->
        [id         |-> data[k].id,
         title      |-> data[k].title,
         isArchived |-> data[k].isArchived,
         isFavorite |-> \/ (data[k].id \in SessionIds(prev)
                              /\ Find(prev, data[k].id).isFavorite)
                        \/ data[k].id \in favs]]

\* markFavorite that never removes an id
FavoritesAfter_AddOnly(favs, id, isFav) ==
    IF isFav THEN favs \cup {id} ELSE favs

\* the setFavoriteIds updater of markFavorite
FavoritesAfter(favs, id, isFav) ==
    IF isFav THEN favs \cup {id} ELSE favs \ {id}

\* the setSessions updater of markFavorite
SessionsFavorite(ss, id, isFav) ==
    [k \in 1..Len(ss) |->
        IF ss[k].id = id THEN [ss[k] EXCEPT !.isFavorite = isFav] ELSE ss[k]]

\* the condition under which markFavorite clears the selection; selected is
\* String(id) === activeSessionId and wasArchived is the isArchived of the
\* session, both as the handler's closure sees them
MarkFavoriteClears(selected, isFav, wasArchived) ==
    selected /\ ~isFav /\ wasArchived

\* setArchiveState that archives whatever archivedState is
SessionsArchived_Always(ss, id, archivedState) ==
    [k \in 1..Len(ss) |->
        IF ss[k].id = id THEN [ss[k] EXCEPT !.isArchived = TRUE] ELSE ss[k]]

\* the setSessions updater of setArchiveState
SessionsArchived(ss, id, archivedState) ==
    [k \in 1..Len(ss) |->
        IF ss[k].id = id THEN [ss[k] EXCEPT !.isArchived = archivedState] ELSE ss[k]]

\* the condition under which setArchiveState clears the selection
ArchiveClears(selected, archivedState) == archivedState /\ selected

\* [...sessions].reverse()
Reverse(ss) == [i \in 1..Len(ss) |-> ss[Len(ss) + 1 - i]]

\* the derived views of a render
ordered(ss, rev) == IF rev THEN Reverse(ss) ELSE ss

activeSessions(ss, rev) == SelectSeq(ordered(ss, rev), LAMBDA x : ~x.isArchived)

favorites(ss, rev) == SelectSeq(activeSessions(ss, rev), LAMBDA x : x.isFavorite)

\* a Sessions list without the favorites
nonFavorites_Strict(ss, rev) ==
    SelectSeq(activeSessions(ss, rev), LAMBDA x : ~x.isFavorite)

\* "show favorites in the main list too"
nonFavorites(ss, rev) == activeSessions(ss, rev)

\* an Archived list that is not built from `ordered`
archived_FetchOrder(ss, rev) == SelectSeq(ss, LAMBDA x : x.isArchived)

archived(ss, rev) == SelectSeq(ordered(ss, rev), LAMBDA x : x.isArchived)

DeadFetch == [data |-> <<>>, live |-> FALSE]

\* The effect of [searchTerm, activeSessionId, editingId, favoriteIds] runs
\* again: the cleanup sets `mounted` of the old closure to false, so every
\* response still in flight is dropped, and refresh() is called at once.
\* A dropped response changes nothing when it resolves: it is taken to
\* resolve at once.
RerunEffect(fs, srv, term) ==
    SetToBag({[data |-> SessionData(srv, term), live |-> TRUE]})

HasRoom(fs) == BagCardinality(fs) < MaxFetch

\* an interval that is cleared when a fetch fails
DirTick_StopOnFailure ==
    /\ mounted
    /\ last.op # "dirFail"
    /\ HasRoom(fetches)
    /\ fetches' = fetches (+)
           SetToBag({[data |-> SessionData(srvSessions, searchTerm), live |-> TRUE]})
    /\ last' = Other
    /\ UNCHANGED <<unhandled, renames, storage>>
    /\ UNCHANGED <<searchTerm, reverseSessions, nbVars, sessions, activeSessionId,
                   editingId, titleDraft, favoriteIds, mounted, pending, srvSessions>>

\* window.setInterval(refresh, 2500): the request reaches the backend
DirTick ==
    /\ mounted
    /\ HasRoom(fetches)
    /\ fetches' = fetches (+)
           SetToBag({[data |-> SessionData(srvSessions, searchTerm), live |-> TRUE]})
    /\ last' = Other
    /\ UNCHANGED <<unhandled, renames, storage>>
    /\ UNCHANGED <<searchTerm, reverseSessions, nbVars, sessions, activeSessionId, editingId,
                   titleDraft, favoriteIds, mounted, pending, srvSessions>>

\* fetcher().then(...) without its `if (!mounted) return`
FetchResolve_NoMountedCheck(f) ==
    /\ BagIn(f, fetches)
    /\ fetches' = fetches (-) SetToBag({f})
    /\ sessions' = MergeSessions(sessions, f.data, favoriteIds)
    /\ UNCHANGED activeSessionId
    /\ last' = Ev("dirResolve", 0, SessionIds(sessions), f.live /\ mounted)
    /\ UNCHANGED <<unhandled, renames, storage>>
    /\ UNCHANGED <<searchTerm, reverseSessions, nbVars, editingId, titleDraft, favoriteIds,
                   mounted, pending, srvSessions>>

\* a then-handler that also replaces a selection missing from the response
FetchResolve_Reselect(f) ==
    /\ BagIn(f, fetches)
    /\ LET rest == fetches (-) SetToBag({f}) IN
       IF f.live /\ mounted
       THEN /\ sessions' = MergeSessions(sessions, f.data, favoriteIds)
            /\ IF /\ Len(f.data) > 0
                  /\ \/ NoActive(activeSessionId)
                     \/ activeSessionId.v \notin DataIds(f.data)
               THEN /\ activeSessionId' = NumId(f.data[Len(f.data)].id)
                    /\ fetches' = RerunEffect(rest, srvSessions, searchTerm)
               ELSE /\ fetches' = rest
                    /\ UNCHANGED activeSessionId
       ELSE /\ fetches' = rest
            /\ UNCHANGED <<sessions, activeSessionId>>
    /\ last' = Ev("dirResolve", 0, SessionIds(sessions), f.live /\ mounted)
    /\ UNCHANGED <<unhandled, renames, storage>>
    /\ UNCHANGED <<searchTerm, reverseSessions, nbVars, editingId, titleDraft, favoriteIds,
                   mounted, pending, srvSessions>>

\* a then-handler that drops the favorites missing from the response
FetchResolve_PruneFavorites(f) ==
    /\ BagIn(f, fetches)
    /\ LET rest == fetches (-) SetToBag({f}) IN
       IF f.live /\ mounted
       THEN /\ sessions' = MergeSessions(sessions, f.data, favoriteIds)
            /\ favoriteIds' = favoriteIds \cap DataIds(f.data)
            /\ storage' = PersistFavorites(storage, favoriteIds')
            /\ activeSessionId' =
                  IF Len(f.data) > 0 /\ NoActive(activeSessionId)
                  THEN NumId(f.data[Len(f.data)].id) ELSE activeSessionId
            /\ fetches' = IF activeSessionId' # activeSessionId
                              \/ favoriteIds' # favoriteIds
                           THEN RerunEffect(rest, srvSessions, searchTerm)
                           ELSE rest
       ELSE /\ fetches' = rest
            /\ UNCHANGED <<sessions, activeSessionId, favoriteIds, storage>>
    /\ last' = Ev("dirResolve", 0, SessionIds(sessions), f.live /\ mounted)
    /\ UNCHANGED <<unhandled, renames>>
    /\ UNCHANGED <<searchTerm, reverseSessions, nbVars, editingId, titleDraft,
                   mounted, pending, srvSessions>>

\* fetcher().then(...)
FetchResolve(f) ==
    /\ BagIn(f, fetches)
    /\ LET rest == fetches (-) SetToBag({f}) IN
       IF f.live /\ mounted
       THEN /\ sessions' = MergeSessions(sessions, f.data, favoriteIds)
            /\ IF Len(f.data) > 0 /\ NoActive(activeSessionId)
               THEN /\ activeSessionId' = NumId(f.data[Len(f.data)].id)
                    /\ fetches' = RerunEffect(rest, srvSessions, searchTerm)
               ELSE /\ fetches' = rest
                    /\ UNCHANGED activeSessionId
       ELSE /\ fetches' = rest
            /\ UNCHANGED <<sessions, activeSessionId>>
    /\ last' = Ev("dirResolve", 0, SessionIds(sessions), f.live /\ mounted)
    /\ UNCHANGED <<unhandled, renames, storage>>
    /\ UNCHANGED <<searchTerm, reverseSessions, nbVars, editingId, titleDraft, favoriteIds,
                   mounted, pending, srvSessions>>

\* a catch that empties the list
FetchFail_Evict(f) ==
    /\ BagIn(f, fetches)
    /\ fetches' = fetches (-) SetToBag({f})
    /\ sessions' = <<>>
    /\ last' = Ev("dirFail", 0, <<>>, FALSE)
    /\ UNCHANGED <<unhandled, renames, storage>>
    /\ UNCHANGED <<searchTerm, reverseSessions, nbVars, activeSessionId, editingId,
                   titleDraft, favoriteIds, mounted, pending, srvSessions>>

\* fetcher().catch(...): logged
FetchFail(f) ==
    /\ BagIn(f, fetches)
    /\ fetches' = fetches (-) SetToBag({f})
    /\ last' = Ev("dirFail", 0, <<>>, FALSE)
    /\ UNCHANGED <<unhandled, renames, storage>>
    /\ UNCHANGED <<searchTerm, reverseSessions, nbVars, sessions, activeSessionId, editingId,
                   titleDraft, favoriteIds, mounted, pending, srvSessions>>

\* the rows with onClick: the sessions that are not archived
ActiveRowIds == {sessions[i].id : i \in {k \in 1..Len(sessions) : ~sessions[k].isArchived}}

handleSelectSession(id) ==
    /\ mounted
    /\ id \in ActiveRowIds
    /\ activeSessionId # StrId(id)
    /\ activeSessionId' = StrId(id)
    /\ fetches' = RerunEffect(fetches, srvSessions, searchTerm)
    /\ last' = Other
    /\ UNCHANGED <<unhandled, renames, storage>>
    /\ UNCHANGED <<searchTerm, reverseSessions, nbVars, sessions, editingId, titleDraft,
                   favoriteIds, mounted, pending, srvSessions>>

\* the star button of a row: markFavorite(s.id, false)
UnfavoriteClick(id) ==
    /\ mounted
    /\ id \in ActiveRowIds
    /\ Find(sessions, id).isFavorite
    /\ favoriteIds' = FavoritesAfter(favoriteIds, id, FALSE)
    /\ sessions' = SessionsFavorite(sessions, id, FALSE)
    /\ activeSessionId' =
          IF MarkFavoriteClears(activeSessionId = StrId(id), FALSE,
                                FindArchived(sessions, id))
          THEN NoId ELSE activeSessionId
    /\ fetches' = RerunEffect(fetches, srvSessions, searchTerm)
    /\ storage' = PersistFavorites(storage, favoriteIds')
    /\ last' = Ev("unfavorite", id, <<>>,
                  last.op = "archiveOk" /\ last.arg = "favorites" /\ last.id = id)
    /\ UNCHANGED <<unhandled, renames>>
    /\ UNCHANGED <<searchTerm, reverseSessions, nbVars, editingId, titleDraft, mounted, pending,
                   srvSessions>>

\* POST /sessions/:id/archive at the backend
ServerArchive(srv, id, target) ==
    [srv EXCEPT ![id].isArchived = (target = "archived")]

\* An archiveSession call in flight. ok: the backend has applied it (it
\* rejects the call otherwise). clears: the continuation will clear the
\* selection, which its closure decides when the handler is created:
\* selected is String(id) === activeSessionId, wasArchived the isArchived of
\* the session in the closure's sessions; setArchiveState(id, true) and
\* handleDrop call markFavorite(id, target === "favorites").
Mutation(id, target, selected, wasArchived, ok) ==
    [id |-> id, target |-> target, ok |-> ok,
     clears |-> /\ ok
                /\ \/ ArchiveClears(selected, target = "archived")
                   \/ MarkFavoriteClears(selected, target = "favorites", wasArchived)]

\* setArchiveState(id, true) without its markFavorite(id, false)
AppliedSessions_KeepFavorite(ss, m) ==
    IF m.target = "archived"
    THEN SessionsArchived(ss, m.id, TRUE)
    ELSE SessionsFavorite(SessionsArchived(ss, m.id, FALSE), m.id,
                          m.target = "favorites")

\* the sessions after the handler's continuation: setArchiveState, which
\* calls markFavorite(id, false) on an archive, then markFavorite on a move
AppliedSessions(ss, m) ==
    IF m.target = "archived"
    THEN SessionsFavorite(SessionsArchived(ss, m.id, TRUE), m.id, FALSE)
    ELSE SessionsFavorite(SessionsArchived(ss, m.id, FALSE), m.id,
                          m.target = "favorites")

\* a continuation that changes isFavorite in the list only
AppliedFavorites_Keep(favs, m) == favs

AppliedFavorites(favs, m) ==
    FavoritesAfter(favs, m.id, m.target = "favorites")

AppliedSelection(active, m) == IF m.clears THEN NoId ELSE active

Targets == {"sessions", "favorites", "archived"}

\* handleDrop applying the local change before its await
handleDrop_Optimistic(target, id) ==
    /\ mounted
    /\ id \in SessionIds(sessions)
    /\ BagCardinality(pending) < MaxPending
    /\ \E ok \in BOOLEAN :
         LET m == Mutation(id, target, activeSessionId = StrId(id),
                           FindArchived(sessions, id), ok)
         IN  /\ pending' = pending (+) SetToBag({m})
             /\ srvSessions' = IF ok THEN ServerArchive(srvSessions, id, target)
                                ELSE srvSessions
             /\ sessions' = AppliedSessions(sessions, m)
             /\ favoriteIds' = AppliedFavorites(favoriteIds, m)
             /\ activeSessionId' = AppliedSelection(activeSessionId, m)
             /\ fetches' = RerunEffect(fetches, srvSessions', searchTerm)
    /\ storage' = PersistFavorites(storage, favoriteIds')
    /\ last' = Other
    /\ UNCHANGED <<unhandled, renames>>
    /\ UNCHANGED <<searchTerm, reverseSessions, nbVars, editingId, titleDraft, mounted>>

\* handleDrop up to its await: the call reaches the backend, which applies
\* or rejects it
handleDrop(target, id) ==
    /\ mounted
    /\ id \in SessionIds(sessions)
    /\ BagCardinality(pending) < MaxPending
    /\ \E ok \in BOOLEAN :
         /\ pending' = pending (+) SetToBag({
                Mutation(id, target, activeSessionId = StrId(id),
                         FindArchived(sessions, id), ok)})
         /\ srvSessions' = IF ok THEN ServerArchive(srvSessions, id, target)
                            ELSE srvSessions
    /\ last' = Other
    /\ UNCHANGED <<unhandled, renames, storage>>
    /\ UNCHANGED <<searchTerm, reverseSessions, nbVars, sessions, activeSessionId, editingId,
                   titleDraft, favoriteIds, mounted, fetches>>

\* the window keydown listener (and handleListKeyDown) for Backspace/Delete,
\* up to its await, where the call reaches the backend; String(activeSessionId) === activeSessionId holds only of
\* a string
onKey ==
    /\ mounted
    /\ Falsy(editingId)
    /\ ~NoActive(activeSessionId)
    /\ BagCardinality(pending) < MaxPending
    /\ \E ok \in BOOLEAN :
         /\ pending' = pending (+) SetToBag({
                Mutation(activeSessionId.v, "archived", activeSessionId.t = "str",
                         FindArchived(sessions, activeSessionId.v), ok)})
         /\ srvSessions' = IF ok
                            THEN ServerArchive(srvSessions, activeSessionId.v, "archived")
                            ELSE srvSessions
    /\ last' = Other
    /\ UNCHANGED <<unhandled, renames, storage>>
    /\ UNCHANGED <<searchTerm, reverseSessions, nbVars, sessions, activeSessionId, editingId,
                   titleDraft, favoriteIds, mounted, fetches>>

\* the await resolves: setArchiveState (and markFavorite) run
ArchiveOk(m) ==
    /\ BagIn(m, pending)
    /\ m.ok
    /\ pending' = pending (-) SetToBag({m})
    /\ IF mounted
       THEN /\ sessions' = AppliedSessions(sessions, m)
            /\ favoriteIds' = AppliedFavorites(favoriteIds, m)
            /\ activeSessionId' = AppliedSelection(activeSessionId, m)
            /\ fetches' = RerunEffect(fetches, srvSessions, searchTerm)
            /\ storage' = PersistFavorites(storage, favoriteIds')
       ELSE UNCHANGED <<sessions, favoriteIds, activeSessionId, fetches, storage>>
    /\ last' = Ev("archiveOk", m.id, m.target, m.id \in favoriteIds)
    /\ UNCHANGED <<unhandled, renames>>
    /\ UNCHANGED <<searchTerm, reverseSessions, nbVars, editingId, titleDraft, mounted, srvSessions>>

\* a catch that "rolls back" a change that was never applied
ArchiveFail_Rollback(m) ==
    /\ BagIn(m, pending)
    /\ pending' = pending (-) SetToBag({m})
    /\ sessions' = SessionsArchived(sessions, m.id, m.target # "archived")
    /\ last' = Ev("archiveFail", m.id, m.target, FALSE)
    /\ UNCHANGED <<unhandled, renames, storage>>
    /\ UNCHANGED <<searchTerm, reverseSessions, nbVars, activeSessionId, editingId, titleDraft,
                   favoriteIds, mounted, fetches, srvSessions>>

\* the await rejects: catch logs the error, nothing is thrown
ArchiveFail(m) ==
    /\ BagIn(m, pending)
    /\ pending' = pending (-) SetToBag({m})
    /\ last' = Ev("archiveFail", m.id, m.target, FALSE)
    /\ UNCHANGED <<unhandled, renames, storage>>
    /\ UNCHANGED <<searchTerm, reverseSessions, nbVars, sessions, activeSessionId, editingId,
                   titleDraft, favoriteIds, mounted, fetches, srvSessions>>

\* the cleanup of LeftSidebar's effect at teardown
Unmount ==
    /\ mounted
    /\ mounted' = FALSE
    /\ fetches' = LET n == BagCardinality(fetches)
                  IN  IF n = 0 THEN EmptyBag ELSE [x \in {DeadFetch} |-> n]
    /\ last' = Other
    /\ UNCHANGED <<unhandled, renames, storage>>
    /\ UNCHANGED <<searchTerm, reverseSessions, nbVars, sessions, activeSessionId, editingId,
                   titleDraft, favoriteIds, pending, srvSessions>>

\* Layout.setSearchTerm: both views render again; LeftSidebar's effect
\* depends on searchTerm, NotebookView's does not
SetSearchTerm(q) ==
    /\ q # searchTerm
    /\ searchTerm' = q
    /\ IF mounted
       THEN fetches' = RerunEffect(fetches, srvSessions, q)
       ELSE UNCHANGED fetches
    /\ last' = Other
    /\ UNCHANGED <<unhandled, renames, storage>>
    /\ UNCHANGED <<reverseSessions, nbVars, sessions, activeSessionId, editingId,
                   titleDraft, favoriteIds, mounted, pending, srvSessions>>

\* ------------------------------------------------------- LeftSidebar: rename
\* `Session ${id}`
DefaultTitle(id) == <<"S", "e", "s", "s", "i", "o", "n", " ">> \o NumToStr(id)

\* what the user types into the title field of a session: a new title for
\* session 1, blanks for session 2
Drafts(id) == IF id = 1 THEN { <<"c">> } ELSE { <<" ", " ">> }

\* the rows of both lists whose title is shown as an input field:
\* nonFavorites (every active session) and favorites, each testing
\* editingId === Number(s.id)
TitleInputs(ss, eid) ==
    {<<"sessions", ss[i].id>> :
        i \in {k \in 1..Len(ss) : ~ss[k].isArchived /\ ss[k].id = eid}}
    \cup
    {<<"favorites", ss[i].id>> :
        i \in {k \in 1..Len(ss) :
                  ~ss[k].isArchived /\ ss[k].isFavorite /\ ss[k].id = eid}}

\* an effect that does not depend on editingId
EditingEffect_None(fs, old, new, srv, term) == fs

\* the effect depends on editingId: it runs again when editingId changes
EditingEffect(fs, old, new, srv, term) ==
    IF new # old THEN RerunEffect(fs, srv, term) ELSE fs

\* onDoubleClick of a row; the two clicks of the gesture have selected it
startEditing(id) ==
    /\ mounted
    /\ id \in ActiveRowIds
    /\ activeSessionId = StrId(id)
    /\ editingId' = id
    /\ titleDraft' = IF Find(sessions, id).title = <<>> THEN DefaultTitle(id)
                      ELSE Find(sessions, id).title
    /\ fetches' = EditingEffect(fetches, editingId, id, srvSessions, searchTerm)
    /\ last' = IF fetches = EmptyBag
               THEN Ev("startEditing", id, <<>>, TRUE)
               ELSE Other
    /\ UNCHANGED <<unhandled, renames, storage>>
    /\ UNCHANGED <<searchTerm, reverseSessions, nbVars, sessions, activeSessionId, favoriteIds,
                   mounted, pending, srvSessions>>

\* onChange of the title field
setTitleDraft(d) ==
    /\ mounted
    /\ TitleInputs(sessions, editingId) # {}
    /\ d # titleDraft
    /\ titleDraft' = d
    /\ last' = Other
    /\ UNCHANGED <<unhandled, renames, storage>>
    /\ UNCHANGED <<searchTerm, reverseSessions, nbVars, sessions, activeSessionId, editingId,
                   favoriteIds, mounted, fetches, pending, srvSessions>>

\* PUT /sessions/:id/title at the backend
ServerTitle(srv, id, title) == [srv EXCEPT ![id].title = title]

\* the setSessions updater of commitEditing
RenamedSessions_NoFallback(ss, id, newTitle) ==
    [k \in 1..Len(ss) |->
        IF ss[k].id = id THEN [ss[k] EXCEPT !.title = newTitle] ELSE ss[k]]

RenamedSessions(ss, id, newTitle) ==
    [k \in 1..Len(ss) |->
        IF ss[k].id = id
        THEN [ss[k] EXCEPT !.title =
                 IF newTitle = <<>> THEN DefaultTitle(ss[k].id) ELSE newTitle]
        ELSE ss[k]]

\* commitEditing applying the title before its await
commitEditing_Optimistic ==
    /\ mounted
    /\ TitleInputs(sessions, editingId) # {}
    /\ BagCardinality(renames) < MaxRename
    /\ \E ok \in BOOLEAN :
         /\ renames' = renames (+) SetToBag({
                [id |-> editingId, title |-> Trim(titleDraft), ok |-> ok]})
         /\ srvSessions' = IF ok
                            THEN ServerTitle(srvSessions, editingId, Trim(titleDraft))
                            ELSE srvSessions
    /\ sessions' = RenamedSessions(sessions, editingId, Trim(titleDraft))
    /\ last' = Ev("renameCall", editingId, <<>>, FALSE)
    /\ UNCHANGED <<unhandled, storage>>
    /\ UNCHANGED <<searchTerm, reverseSessions, nbVars, activeSessionId, editingId,
                   titleDraft, favoriteIds, mounted, fetches, pending>>

\* commitEditing up to its await: it returns at `if (!editingId) return`, or
\* the call reaches the backend, which applies or rejects it; cap bounds the
\* calls in flight
CommitCall(cap) ==
    /\ mounted
    /\ TitleInputs(sessions, editingId) # {}
    /\ IF Falsy(editingId)
       THEN /\ UNCHANGED <<renames, srvSessions>>
            /\ last' = Ev("commitReturn", editingId, <<>>, FALSE)
       ELSE /\ BagCardinality(renames) < cap
            /\ \E ok \in BOOLEAN :
                 /\ renames' = renames (+) SetToBag({
                        [id |-> editingId, title |-> Trim(titleDraft), ok |-> ok]})
                 /\ srvSessions' =
                        IF ok THEN ServerTitle(srvSessions, editingId, Trim(titleDraft))
                        ELSE srvSessions
            /\ last' = Ev("renameCall", editingId, <<>>, FALSE)
    /\ UNCHANGED <<unhandled, storage>>
    /\ UNCHANGED <<searchTerm, reverseSessions, nbVars, sessions, activeSessionId, editingId,
                   titleDraft, favoriteIds, mounted, fetches, pending>>

\* Enter in the title field
commitEditing == CommitCall(MaxRename)

\* blur of the title field: onBlur={commitEditing}; the field stays shown
\* while the call of an earlier Enter is in flight, so it can lose the focus
\* then
onBlur == CommitCall(MaxRename + 1)

\* the await resolves: the title is applied, then finally setEditingId(null)
RenameOk(r) ==
    /\ BagIn(r, renames)
    /\ r.ok
    /\ renames' = renames (-) SetToBag({r})
    /\ IF mounted
       THEN /\ sessions' = RenamedSessions(sessions, r.id, r.title)
            /\ editingId' = NoEditing
            /\ fetches' = EditingEffect(fetches, editingId, NoEditing, srvSessions, searchTerm)
       ELSE UNCHANGED <<sessions, editingId, fetches>>
    /\ last' = Ev("renameOk", r.id, r.title, FALSE)
    /\ UNCHANGED <<unhandled, storage>>
    /\ UNCHANGED <<searchTerm, reverseSessions, nbVars, activeSessionId, titleDraft, favoriteIds,
                   mounted, pending, srvSessions>>

\* the await rejects: catch logs, then finally setEditingId(null)
RenameFail(r) ==
    /\ BagIn(r, renames)
    /\ renames' = renames (-) SetToBag({r})
    /\ IF mounted
       THEN /\ editingId' = NoEditing
            /\ fetches' = EditingEffect(fetches, editingId, NoEditing, srvSessions, searchTerm)
       ELSE UNCHANGED <<editingId, fetches>>
    /\ last' = Ev("renameFail", r.id, <<>>, FALSE)
    /\ UNCHANGED <<unhandled, storage>>
    /\ UNCHANGED <<searchTerm, reverseSessions, nbVars, sessions, activeSessionId, titleDraft,
                   favoriteIds, mounted, pending, srvSessions>>

\* an Escape that commits the draft as Enter does
cancelEditing_Commit ==
    /\ mounted
    /\ TitleInputs(sessions, editingId) # {}
    /\ BagCardinality(renames) < MaxRename
    /\ renames' = renames (+) SetToBag({
           [id |-> editingId, title |-> Trim(titleDraft), ok |-> TRUE]})
    /\ srvSessions' = ServerTitle(srvSessions, editingId, Trim(titleDraft))
    /\ editingId' = NoEditing
    /\ fetches' = EditingEffect(fetches, editingId, NoEditing, srvSessions', searchTerm)
    /\ last' = Other
    /\ UNCHANGED <<unhandled, storage>>
    /\ UNCHANGED <<searchTerm, reverseSessions, nbVars, sessions, activeSessionId, titleDraft,
                   favoriteIds, mounted, pending>>

\* Escape in the title field
cancelEditing ==
    /\ mounted
    /\ TitleInputs(sessions, editingId) # {}
    /\ editingId' = NoEditing
    /\ fetches' = EditingEffect(fetches, editingId, NoEditing, srvSessions, searchTerm)
    /\ last' = Other
    /\ UNCHANGED <<unhandled, renames, storage>>
    /\ UNCHANGED <<searchTerm, reverseSessions, nbVars, sessions, activeSessionId, titleDraft,
                   favoriteIds, mounted, pending, srvSessions>>

\* ------------------------------------------------- LeftSidebar: key presses
\* where the input focus is when a key is pressed: the page body, one of the
\* two session lists, or a text input (the search box, the title field, the
\* command input, the rich-text editor)
TextInputs == {"search", "rename", "command", "editor"}
FocusTargets == {"body", "list"} \cup TextInputs

\* the handlers a Backspace/Delete keydown reaches: the window listener
\* always (no handler stops the event, the listener does not look at its
\* target), handleListKeyDown too when the focus is inside a session list
KeyHandlers(focus) == IF focus \in {"list", "rename"} THEN 2 ELSE 1

\* the archiveSession(activeSessionId, true) call of a key handler
KeyMutation(active, ss, ok) ==
    Mutation(active.v, "archived", active.t = "str", FindArchived(ss, active.v), ok)

\* the key handlers without their `if (editingId) return`
KeyDown_NoRenameCheck(focus) ==
    /\ mounted
    /\ focus = "rename" => TitleInputs(sessions, editingId) # {}
    /\ IF ~NoActive(activeSessionId)
       THEN /\ BagCardinality(pending) < MaxPending
            /\ \E ok \in BOOLEAN :
                 /\ pending' = pending (+)
                        SetToBag({KeyMutation(activeSessionId, sessions, ok)})
                 /\ srvSessions' =
                        IF ok THEN ServerArchive(srvSessions, activeSessionId.v, "archived")
                        ELSE srvSessions
       ELSE UNCHANGED <<pending, srvSessions>>
    /\ last' = Ev("key", 0, focus, FALSE)
    /\ UNCHANGED <<unhandled, renames, storage>>
    /\ UNCHANGED <<searchTerm, reverseSessions, nbVars, sessions, activeSessionId, editingId,
                   titleDraft, favoriteIds, mounted, fetches>>

\* a Backspace/Delete keydown with the focus in `focus`: every handler it
\* reaches runs up to its await (if (editingId) return; if
\* (!activeSessionId) return; await archiveSession(activeSessionId, true))
KeyDown(focus) ==
    /\ mounted
    /\ focus = "rename" => TitleInputs(sessions, editingId) # {}
    /\ IF Falsy(editingId) /\ ~NoActive(activeSessionId)
       THEN /\ BagCardinality(pending) + KeyHandlers(focus) <= MaxPending
            /\ \E ok1 \in BOOLEAN, ok2 \in BOOLEAN :
                 /\ pending' = pending
                       (+) SetToBag({KeyMutation(activeSessionId, sessions, ok1)})
                       (+) (IF KeyHandlers(focus) = 2
                            THEN SetToBag({KeyMutation(activeSessionId, sessions, ok2)})
                            ELSE EmptyBag)
                 /\ KeyHandlers(focus) = 1 => ok2 = ok1
                 /\ srvSessions' =
                       IF ok1 \/ (KeyHandlers(focus) = 2 /\ ok2)
                       THEN ServerArchive(srvSessions, activeSessionId.v, "archived")
                       ELSE srvSessions
       ELSE UNCHANGED <<pending, srvSessions>>
    /\ last' = Ev("key", 0, focus, FALSE)
    /\ UNCHANGED <<unhandled, renames, storage>>
    /\ UNCHANGED <<searchTerm, reverseSessions, nbVars, sessions, activeSessionId, editingId,
                   titleDraft, favoriteIds, mounted, fetches>>

\* ------------------------------------------------------------ specifications
ServerSessionStates ==
    {[i \in Ids |-> [title |-> Title(i), isArchived |-> a[i]]] : a \in [Ids -> BOOLEAN]}

InitLayout == searchTerm = <<>> /\ reverseSessions = FALSE

\* NotebookView after its first render and effect
InitNotebook ==
    /\ nbSessions = <<>>
    /\ sessionState = <<>>
    /\ nbMounted = TRUE
    /\ nbRefreshTerm = searchTerm
    /\ srvNotebook \in {f \in [Ids -> UNION {NotebookChoices(i) : i \in Ids}] :
                           \A i \in Ids : f[i] \in NotebookChoices(i)}
    /\ nbFetches = SetToBag({NotebookData(srvNotebook)})

\* NotebookView not rendered
NoNotebook ==
    /\ nbSessions = <<>>
    /\ sessionState = <<>>
    /\ nbMounted = FALSE
    /\ nbRefreshTerm = searchTerm
    /\ srvNotebook = [i \in Ids |-> [present |-> FALSE, blocks |-> <<>>]]
    /\ nbFetches = EmptyBag

\* LeftSidebar after its first render and effect; loadFavorites() gives the
\* stored ids
InitSidebar ==
    /\ sessions = <<>>
    /\ activeSessionId = NoId
    /\ editingId = NoEditing
    /\ titleDraft = <<>>
    /\ mounted = TRUE
    /\ pending = EmptyBag
    /\ renames = EmptyBag
    /\ srvSessions \in ServerSessionStates
    /\ storage \in {[entry |-> TextEntry(JsonStringifyIds(SortedIds(F))),
                      writable |-> TRUE] : F \in SUBSET Ids}
    /\ favoriteIds = loadFavorites(storage.entry)
    /\ \A i \in favoriteIds : ~srvSessions[i].isArchived
    /\ fetches = SetToBag({[data |-> SessionData(srvSessions, searchTerm), live |-> TRUE]})

\* LeftSidebar not rendered
NoSidebar ==
    /\ sessions = <<>>
    /\ activeSessionId = NoId
    /\ editingId = NoEditing
    /\ titleDraft = <<>>
    /\ mounted = FALSE
    /\ pending = EmptyBag
    /\ renames = EmptyBag
    /\ srvSessions = [i \in Ids |-> [title |-> Title(i), isArchived |-> FALSE]]
    /\ favoriteIds = {}
    /\ storage = [entry |-> Absent, writable |-> TRUE]
    /\ fetches = EmptyBag

InitLast == last = Ev("init", 0, <<>>, FALSE) /\ unhandled = FALSE

\* the Notebook Synchronizer
NotebookInit == InitLayout /\ InitNotebook /\ NoSidebar /\ InitLast

NotebookNext ==
    \/ NbTick
    \/ \E d \in BagToSet(nbFetches) : NbFetchResolve(d)
    \/ \E d \in BagToSet(nbFetches) : NbFetchFail(d)
    \/ \E id \in Ids, h \in EditContents, foc \in BOOLEAN : onUpdate(id, h, foc)
    \/ \E id \in Ids : \E c \in NotebookChoices(id) : ServerNotebookChange(id, c)
    \/ \E q \in SearchTerms : SetSearchTerm(q)

NotebookSpec == NotebookInit /\ [][NotebookNext]_vars

\* the Session Directory
DirectoryInit == InitLayout /\ NoNotebook /\ InitSidebar /\ InitLast

DirectoryNext ==
    \/ DirTick
    \/ \E f \in BagToSet(fetches) : FetchResolve(f)
    \/ \E f \in BagToSet(fetches) : FetchFail(f)
    \/ \E id \in Ids : handleSelectSession(id)
    \/ \E id \in Ids : UnfavoriteClick(id)
    \/ \E id \in Ids, t \in Targets : handleDrop(t, id)
    \/ onKey
    \/ \E m \in BagToSet(pending) : ArchiveOk(m)
    \/ \E m \in BagToSet(pending) : ArchiveFail(m)
DirectorySpec == DirectoryInit /\ [][DirectoryNext]_vars

\* both views polling, until they are unmounted
PollInit == InitLayout /\ InitNotebook /\ InitSidebar /\ InitLast

PollNext ==
    \/ NbTick
    \/ \E d \in BagToSet(nbFetches) : NbFetchResolve(d)
    \/ \E d \in BagToSet(nbFetches) : NbFetchFail(d)
    \/ \E id \in Ids, h \in EditContents, foc \in BOOLEAN : onUpdate(id, h, foc)
    \/ NbUnmount
    \/ DirTick
    \/ \E f \in BagToSet(fetches) : FetchResolve(f)
    \/ \E f \in BagToSet(fetches) : FetchFail(f)
    \/ \E id \in Ids : handleSelectSession(id)
    \/ Unmount

PollSpec == PollInit /\ [][PollNext]_vars

\* the Session Directory under key presses
KeyNext ==
    \/ DirTick
    \/ \E f \in BagToSet(fetches) : FetchResolve(f)
    \/ \E f \in BagToSet(fetches) : FetchFail(f)
    \/ \E id \in Ids : handleSelectSession(id)
    \/ \E id \in Ids : startEditing(id)
    \/ cancelEditing
    \/ \E focus \in FocusTargets : KeyDown(focus)
    \/ \E m \in BagToSet(pending) : ArchiveOk(m)
    \/ \E m \in BagToSet(pending) : ArchiveFail(m)

KeySpec == DirectoryInit /\ [][KeyNext]_vars

\* the Session Directory while titles are edited
RenameNext ==
    \/ DirTick
    \/ \E f \in BagToSet(fetches) : FetchResolve(f)
    \/ \E f \in BagToSet(fetches) : FetchFail(f)
    \/ \E id \in Ids : handleSelectSession(id)
    \/ \E id \in Ids : startEditing(id)
    \/ \E d \in Drafts(editingId) : setTitleDraft(d)
    \/ commitEditing
    \/ cancelEditing
    \/ \E r \in BagToSet(renames) : RenameOk(r)
    \/ \E r \in BagToSet(renames) : RenameFail(r)

\* no session is archived at the backend: nothing archives one here
RenameInit ==
    /\ DirectoryInit
    /\ \A i \in Ids : ~srvSessions[i].isArchived

RenameSpec == RenameInit /\ [][RenameNext]_vars

\* RightPanel calls setReverseSessions: both views render again; no effect
\* depends on reverseSessions
ToggleReverse ==
    /\ reverseSessions' = ~reverseSessions
    /\ last' = Other
    /\ UNCHANGED <<searchTerm, nbVars, dirVars, unhandled>>

\* the Session Directory and its three lists
ViewNext ==
    \/ DirTick
    \/ \E f \in BagToSet(fetches) : FetchResolve(f)
    \/ \E f \in BagToSet(fetches) : FetchFail(f)
    \/ \E id \in Ids, t \in Targets : handleDrop(t, id)
    \/ \E m \in BagToSet(pending) : ArchiveOk(m)
    \/ \E m \in BagToSet(pending) : ArchiveFail(m)
    \/ ToggleReverse

ViewSpec == DirectoryInit /\ [][ViewNext]_vars

\* the notebook while the backend appends blocks to session 1: the block
\* list only grows, so the blocks of a response tell when it was requested
Versions ==
    << <<Blk("paragraph", <<"a", "<">>)>>,
       <<Blk("paragraph", <<"a", "<">>), Blk("paragraph", <<"A">>)>>,
       <<Blk("paragraph", <<"a", "<">>), Blk("paragraph", <<"A">>), Blk("chart", <<>>)>> >>

\* the version (index in Versions) of a block list, 0 if it is none of them
VersionOf(blocks) ==
    IF \E v \in 1..Len(Versions) : Versions[v] = blocks
    THEN CHOOSE v \in 1..Len(Versions) : Versions[v] = blocks
    ELSE 0

OverlapInit ==
    /\ InitLayout
    /\ nbSessions = <<>>
    /\ sessionState = <<>>
    /\ nbMounted = TRUE
    /\ nbRefreshTerm = searchTerm
    /\ srvNotebook = [i \in Ids |->
          IF i = 1 THEN [present |-> TRUE, blocks |-> Versions[1]]
          ELSE [present |-> TRUE, blocks |-> <<Blk("table", <<"t">>)>>]]
    /\ nbFetches = SetToBag({NotebookData(srvNotebook)})
    /\ NoSidebar
    /\ InitLast

OverlapNext ==
    \/ NbTick
    \/ \E d \in BagToSet(nbFetches) : NbFetchResolve(d)
    \/ \E d \in BagToSet(nbFetches) : NbFetchFail(d)
    \/ \E id \in Ids, h \in EditContents, foc \in BOOLEAN : onUpdate(id, h, foc)
    \/ \E v \in 2..Len(Versions) :
          /\ VersionOf(srvNotebook[1].blocks) = v - 1
          /\ ServerNotebookChange(1, [present |-> TRUE, blocks |-> Versions[v]])

OverlapSpec == OverlapInit /\ [][OverlapNext]_vars

\* both views while the user edits, searches, selects and reverses, and
\* session 2 comes and goes at the backend
BufferInit ==
    /\ InitLayout
    /\ nbSessions = <<>>
    /\ sessionState = <<>>
    /\ nbMounted = TRUE
    /\ nbRefreshTerm = searchTerm
    /\ srvNotebook = [i \in Ids |->
          IF i = 1 THEN [present |-> TRUE, blocks |-> Versions[1]]
          ELSE [present |-> TRUE, blocks |-> <<Blk("table", <<"t">>)>>]]
    /\ nbFetches = SetToBag({NotebookData(srvNotebook)})
    /\ InitSidebar
    /\ favoriteIds = {}
    /\ \A i \in Ids : ~srvSessions[i].isArchived
    /\ InitLast

BufferNext ==
    \/ NbTick
    \/ \E d \in BagToSet(nbFetches) : NbFetchResolve(d)
    \/ \E d \in BagToSet(nbFetches) : NbFetchFail(d)
    \/ \E id \in Ids, h \in EditContents, foc \in BOOLEAN : onUpdate(id, h, foc)
    \/ \E c \in NotebookChoices(2) : ServerNotebookChange(2, c)
    \/ \E q \in SearchTerms : SetSearchTerm(q)
    \/ ToggleReverse
    \/ DirTick
    \/ \E f \in BagToSet(fetches) : FetchResolve(f)
    \/ \E id \in Ids : handleSelectSession(id)

BufferSpec == BufferInit /\ [][BufferNext]_vars

\* both poll timers with failing fetches. The intervals keep firing while
\* the views are mounted (weak fairness of the ticks) and, as the claim
\* supposes, fetches do not fail for ever (strong fairness of the resolves).
RetryInit ==
    /\ PollInit
    /\ srvNotebook = [i \in Ids |->
          IF i = 1 THEN [present |-> TRUE, blocks |-> Versions[1]]
          ELSE [present |-> TRUE, blocks |-> <<Blk("table", <<"t">>)>>]]

RetryNext ==
    \/ NbTick
    \/ \E d \in BagToSet(nbFetches) : NbFetchResolve(d)
    \/ \E d \in BagToSet(nbFetches) : NbFetchFail(d)
    \/ NbUnmount
    \/ DirTick
    \/ \E f \in BagToSet(fetches) : FetchResolve(f)
    \/ \E f \in BagToSet(fetches) : FetchFail(f)
    \/ Unmount

RetryFairness ==
    /\ WF_vars(NbTick)
    /\ WF_vars(DirTick)
    /\ SF_vars(\E d \in BagToSet(nbFetches) : NbFetchResolve(d))
    /\ SF_vars(\E f \in BagToSet(fetches) : FetchResolve(f))

RetrySpec == RetryInit /\ [][RetryNext]_vars /\ RetryFairness

\* the Session Directory's refresh effect under the changes of its
\* dependencies [searchTerm, activeSessionId, editingId, favoriteIds]
EffectNext ==
    \/ DirTick
    \/ \E f \in BagToSet(fetches) : FetchResolve(f)
    \/ \E f \in BagToSet(fetches) : FetchFail(f)
    \/ \E id \in Ids : handleSelectSession(id)
    \/ \E id \in Ids : startEditing(id)
    \/ cancelEditing
    \/ \E id \in Ids : UnfavoriteClick(id)
    \/ \E q \in SearchTerms : SetSearchTerm(q)
    \/ ToggleReverse

EffectSpec == RenameInit /\ [][EffectNext]_vars

\* the Session Directory while titles are edited, over a backend whose
\* sessions have the ids 0 and 1; every call in flight completes
ZeroIds == {0, 1}

CommitInit ==
    /\ InitLayout /\ NoNotebook /\ InitLast
    /\ sessions = <<>>
    /\ activeSessionId = NoId
    /\ editingId = NoEditing
    /\ titleDraft = <<>>
    /\ mounted = TRUE
    /\ pending = EmptyBag
    /\ renames = EmptyBag
    /\ srvSessions = [i \in ZeroIds |-> [title |-> Title(i), isArchived |-> FALSE]]
    /\ storage = [entry |-> Absent, writable |-> TRUE]
    /\ favoriteIds = loadFavorites(storage.entry)
    /\ fetches = SetToBag({[data |-> SessionData(srvSessions, searchTerm), live |-> TRUE]})

CommitNext ==
    \/ DirTick
    \/ \E f \in BagToSet(fetches) : FetchResolve(f)
    \/ \E f \in BagToSet(fetches) : FetchFail(f)
    \/ \E id \in ZeroIds : handleSelectSession(id)
    \/ \E id \in ZeroIds : startEditing(id)
    \/ \E d \in Drafts(editingId) : setTitleDraft(d)
    \/ commitEditing
    \/ cancelEditing
    \/ \E r \in BagToSet(renames) : RenameOk(r)
    \/ \E r \in BagToSet(renames) : RenameFail(r)

\* the interval fires while the view is mounted; a request that was sent
\* is answered or fails
CommitFairness ==
    /\ WF_vars(DirTick)
    /\ WF_vars(\E f \in BagToSet(fetches) : FetchResolve(f) \/ FetchFail(f))
    /\ WF_vars(\E r \in BagToSet(renames) : RenameOk(r) \/ RenameFail(r))

CommitSpec == CommitInit /\ [][CommitNext]_vars /\ CommitFairness

\* the Session Directory under moves and renames of one session while it
\* keeps polling: fetches succeed, every call in flight completes, and the
\* user has one kind of mutation in flight at a time
SettleIds == {2}

SettleInit ==
    /\ InitLayout /\ NoNotebook /\ InitLast
    /\ sessions = <<>>
    /\ activeSessionId = NoId
    /\ editingId = NoEditing
    /\ titleDraft = <<>>
    /\ mounted = TRUE
    /\ pending = EmptyBag
    /\ renames = EmptyBag
    /\ srvSessions = [i \in SettleIds |-> [title |-> Title(i), isArchived |-> FALSE]]
    /\ storage = [entry |-> Absent, writable |-> TRUE]
    /\ favoriteIds = loadFavorites(storage.entry)
    /\ fetches = SetToBag({[data |-> SessionData(srvSessions, searchTerm), live |-> TRUE]})

SettleNext ==
    \/ DirTick
    \/ \E f \in BagToSet(fetches) : FetchResolve(f)
    \/ \E id \in SettleIds : handleSelectSession(id)
    \/ /\ renames = EmptyBag
       /\ \E id \in SettleIds, t \in {"sessions", "archived"} : handleDrop(t, id)
    \/ \E m \in BagToSet(pending) : ArchiveOk(m)
    \/ \E m \in BagToSet(pending) : ArchiveFail(m)
    \/ \E id \in SettleIds : startEditing(id)
    \/ \E d \in Drafts(editingId) : setTitleDraft(d)
    \/ pending = EmptyBag /\ commitEditing
    \/ \E r \in BagToSet(renames) : RenameOk(r)
    \/ \E r \in BagToSet(renames) : RenameFail(r)

SettleFairness ==
    /\ WF_vars(DirTick)
    /\ SF_vars(\E f \in BagToSet(fetches) : FetchResolve(f))
    /\ WF_vars(\E m \in BagToSet(pending) : ArchiveOk(m) \/ ArchiveFail(m))
    /\ WF_vars(\E r \in BagToSet(renames) : RenameOk(r) \/ RenameFail(r))

SettleSpec == SettleInit /\ [][SettleNext]_vars /\ SettleFairness

\* the rename of one session, by Enter and by blur of the title field
EpisodeIds == {1}

EpisodeInit ==
    /\ InitLayout /\ NoNotebook /\ InitLast
    /\ sessions = <<>>
    /\ activeSessionId = NoId
    /\ editingId = NoEditing
    /\ titleDraft = <<>>
    /\ mounted = TRUE
    /\ pending = EmptyBag
    /\ renames = EmptyBag
    /\ srvSessions = [i \in EpisodeIds |-> [title |-> Title(i), isArchived |-> FALSE]]
    /\ storage = [entry |-> Absent, writable |-> TRUE]
    /\ favoriteIds = loadFavorites(storage.entry)
    /\ fetches = SetToBag({[data |-> SessionData(srvSessions, searchTerm), live |-> TRUE]})

EpisodeNext ==
    \/ DirTick
    \/ \E f \in BagToSet(fetches) : FetchResolve(f)
    \/ \E id \in EpisodeIds : handleSelectSession(id)
    \/ \E id \in EpisodeIds : startEditing(id)
    \/ \E d \in Drafts(editingId) : setTitleDraft(d)
    \/ commitEditing
    \/ onBlur
    \/ cancelEditing
    \/ \E r \in BagToSet(renames) : RenameOk(r)
    \/ \E r \in BagToSet(renames) : RenameFail(r)

EpisodeSpec == EpisodeInit /\ [][EpisodeNext]_vars

\* the notebook rendering one paragraph under a search term
MaxTextLen == 3
MaxTermLen == 2

SeqsUpTo(S, n) == UNION {[1..k -> S] : k \in 0..n}

HighlightTexts == SeqsUpTo({"a", "A", ".", "<", "\\"}, MaxTextLen)
HighlightTerms == SeqsUpTo({"a", ".", "\\", " "}, MaxTermLen)

\* NotebookView mounted with the term already typed; the backend holds one
\* session with one paragraph
HighlightInit ==
    /\ searchTerm \in HighlightTerms
    /\ reverseSessions = FALSE
    /\ nbSessions = <<>>
    /\ sessionState = <<>>
    /\ nbMounted = TRUE
    /\ nbRefreshTerm = searchTerm
    /\ \E t \in HighlightTexts :
          srvNotebook = [i \in Ids |->
              IF i = 1 THEN [present |-> TRUE, blocks |-> <<Blk("paragraph", t)>>]
              ELSE [present |-> FALSE, blocks |-> <<>>]]
    /\ nbFetches = SetToBag({NotebookData(srvNotebook)})
    /\ NoSidebar
    /\ InitLast

HighlightNext ==
    \/ NbTick
    \/ \E d \in BagToSet(nbFetches) : NbFetchResolve(d)
    \/ \E d \in BagToSet(nbFetches) : NbFetchFail(d)

HighlightSpec == HighlightInit /\ [][HighlightNext]_vars

\* the Session Directory with its durable favorites, across page reloads:
\* the fetches are those of a page load and of the effect running again
\* what the client itself has written
IdArrayEntries ==
    {TextEntry(JsonStringifyIds(SortedIds(F))) : F \in SUBSET Ids}

\* arrays written by something else: ["1"], [12,1], ["x",2]
LooseArrayEntries ==
    { TextEntry(<<"[", "\"", "1", "\"", "]">>),
      TextEntry(<<"[", "1", "2", ",", "1", "]">>),
      TextEntry(<<"[", "\"", "x", "\"", ",", "2", "]">>) }

\* no entry, a store that cannot be read, and texts that are not a
\* serialized array: "", {}, null, 7, [1 and [1,]
CorruptEntries ==
    { Absent, Unreadable, TextEntry(<<>>),
      TextEntry(<<"{", "}">>),
      TextEntry(<<"n", "u", "l", "l">>),
      TextEntry(<<"7">>),
      TextEntry(<<"[", "1">>),
      TextEntry(<<"[", "1", ",", "]">>) }

StoredEntries == IdArrayEntries \cup LooseArrayEntries \cup CorruptEntries

\* the entries held by a store that rejects every write: none, [1,2], [1,]
ReadOnlyEntries ==
    { Absent,
      TextEntry(<<"[", "1", ",", "2", "]">>),
      TextEntry(<<"[", "1", ",", "]">>) }

\* the page is loaded again: every useState initialiser runs, favoriteIds
\* is loaded from the entry, both effects run; calls in flight are lost
Reload ==
    /\ mounted
    /\ searchTerm' = <<>>
    /\ reverseSessions' = FALSE
    /\ sessions' = <<>>
    /\ activeSessionId' = NoId
    /\ editingId' = NoEditing
    /\ titleDraft' = <<>>
    /\ pending' = EmptyBag
    /\ renames' = EmptyBag
    /\ favoriteIds' = loadFavorites(storage.entry)
    /\ storage' = PersistFavorites(storage, favoriteIds')
    /\ unhandled' = (unhandled \/ LoadOutcome(storage.entry).threw)
    /\ fetches' = SetToBag({[data |-> SessionData(srvSessions, <<>>), live |-> TRUE]})
    /\ last' = Ev("startup", 1, storage.entry, storage.writable)
    /\ UNCHANGED <<nbVars, mounted, srvSessions>>

FavoritesInit ==
    /\ InitLayout
    /\ NoNotebook
    /\ sessions = <<>>
    /\ activeSessionId = NoId
    /\ editingId = NoEditing
    /\ titleDraft = <<>>
    /\ mounted = TRUE
    /\ pending = EmptyBag
    /\ renames = EmptyBag
    /\ srvSessions = [i \in Ids |-> [title |-> Title(i), isArchived |-> FALSE]]
    /\ \E e \in StoredEntries, w \in BOOLEAN :
          /\ w \/ e \in ReadOnlyEntries
          /\ favoriteIds = loadFavorites(e)
          /\ storage = PersistFavorites([entry |-> e, writable |-> w], favoriteIds)
          /\ unhandled = LoadOutcome(e).threw
          /\ last = Ev("startup", 0, e, w)
    /\ fetches = SetToBag({[data |-> SessionData(srvSessions, searchTerm), live |-> TRUE]})

FavoritesNext ==
    \/ \E f \in BagToSet(fetches) : FetchResolve(f)
    \/ \E f \in BagToSet(fetches) : FetchFail(f)
    \/ \E id \in Ids : UnfavoriteClick(id)
    \/ \E id \in Ids, t \in Targets : handleDrop(t, id)
    \/ \E m \in BagToSet(pending) : ArchiveOk(m)
    \/ \E m \in BagToSet(pending) : ArchiveFail(m)
    \/ Reload

FavoritesSpec == FavoritesInit /\ [][FavoritesNext]_vars

\* ==================================================================== claims

InFlight(b) == BagCardinality(b)

\* the step is a handler issuing an archiveSession call
CallIssued == InFlight(pending') = InFlight(pending) + 1

\* ------------------------------------------------------------------------ C1
\* C1: once a session's EditBuffer is dirty, no Notebook refresh response
\* (resolved or failed, in any completion order) changes that session's
\* renderedContent or its dirty flag.
C1_DirtySurvivesRefresh ==
    [][ last'.op \in {"nbResolve", "nbFail"} =>
          \A id \in DOMAIN sessionState :
              sessionState[id].dirty =>
                  /\ id \in DOMAIN sessionState'
                  /\ sessionState'[id] = sessionState[id] ]_vars

\* a response carrying a dirty session's blocks was applied while another
\* response was still in flight, and the session still shows the user's edit
C1_Witness ==
    /\ last.op = "nbResolve" /\ last.flag
    /\ InFlight(nbFetches) >= 1
    /\ \E id \in DataIds(nbSessions) \cap DOMAIN sessionState :
          /\ sessionState[id].dirty
          /\ sessionState[id].html \in EditContents

\* ------------------------------------------------------------------------ C2
\* C2: an editor update that arrives while the editor has no input focus
\* neither marks the EditBuffer dirty nor changes the stored renderedContent.
C2_UnfocusedUpdateIgnored ==
    [][ (last'.op = "onUpdate" /\ ~last'.flag) => sessionState' = sessionState ]_vars

\* an unfocused update with new content reached a clean session
C2_Witness ==
    /\ last.op = "onUpdate" /\ ~last.flag
    /\ last.id \in DOMAIN sessionState
    /\ ~sessionState[last.id].dirty
    /\ sessionState[last.id].html # last.arg

\* ------------------------------------------------------------------------ C3
\* C3: onEdit(sessionId, content) with input focus sets that session's
\* EditBuffer to {renderedContent = content, isDirty = true} and leaves the
\* EditBuffer of every other session unchanged.
C3_OnEditStores ==
    [][ (last'.op = "onUpdate" /\ last'.flag) =>
          /\ DOMAIN sessionState' = DOMAIN sessionState \cup {last'.id}
          /\ sessionState'[last'.id] = [html |-> last'.arg, dirty |-> TRUE]
          /\ \A k \in DOMAIN sessionState \ {last'.id} :
                sessionState'[k] = sessionState[k] ]_vars

\* a focused edit was stored while another session has an EditBuffer
C3_Witness ==
    /\ last.op = "onUpdate" /\ last.flag
    /\ last.id \in DOMAIN sessionState
    /\ sessionState[last.id] = [html |-> last.arg, dirty |-> TRUE]
    /\ DOMAIN sessionState \ {last.id} # {}

\* ------------------------------------------------------------------------ C4
\* C4: log blocks never contribute to renderedContent: the renderedContent of
\* every non-dirty listed session is the rendering of its blocks with the log
\* blocks removed (under the search term refresh renders with).
C4_LogsNeverRendered ==
    \A i \in 1..Len(nbSessions) :
        LET s == nbSessions[i] IN
        (s.id \in DOMAIN sessionState /\ ~sessionState[s.id].dirty) =>
            sessionState[s.id].html = blocksToHtml(NoLog(s.blocks), nbRefreshTerm)

\* ------------------------------------------------------------------------ C5
\* C5: after a refresh is applied, the renderedContent of every non-dirty
\* listed session is render(blocks, current search term) (stated of the
\* sessions without log blocks, which C4 is about).
C5_RenderedWithCurrentTerm ==
    (last.op = "nbResolve" /\ last.flag) =>
        \A i \in 1..Len(nbSessions) :
            LET s == nbSessions[i] IN
            (/\ s.id \in DOMAIN sessionState
             /\ ~sessionState[s.id].dirty
             /\ NoLog(s.blocks) = s.blocks) =>
                sessionState[s.id].html = blocksToHtml(s.blocks, searchTerm)

\* ------------------------------------------------------------------------ C6
\* C6: after setArchived(id, true) is applied, the session is not a favorite
\* and id is not in FavoriteSet, whatever its favorite state was before.
C6_ArchiveClearsFavorite ==
    (last.op = "archiveOk" /\ last.arg = "archived") =>
        /\ last.id \notin favoriteIds
        /\ \A i \in 1..Len(sessions) :
              sessions[i].id = last.id =>
                  sessions[i].isArchived /\ ~sessions[i].isFavorite

\* an archive was applied to a listed session that was in FavoriteSet
C6_Witness ==
    /\ last.op = "archiveOk" /\ last.arg = "archived"
    /\ last.flag
    /\ last.id \in SessionIds(sessions)

\* ------------------------------------------------------------------------ C7
\* C7: in every reachable state no session is archived and favorite at once.
C7_NeverArchivedAndFavorite ==
    \A i \in 1..Len(sessions) : ~(sessions[i].isArchived /\ sessions[i].isFavorite)

\* ------------------------------------------------------------------------ C8
\* C8: when an archive is applied to the session that is selected, the
\* selection becomes null, however the selection was established.
C8_ArchiveClearsSelection ==
    [][ (/\ last'.op = "archiveOk" /\ last'.arg = "archived"
         /\ activeSessionId # NoId
         /\ activeSessionId.v = last'.id) =>
            activeSessionId' = NoId ]_vars

C10_FailureChangesNothing ==
    [][ (CallIssued \/ last'.op = "archiveFail") =>
          /\ UNCHANGED <<sessions, favoriteIds, activeSessionId>>
          /\ ~unhandled' ]_vars

\* the archive of a selected, listed, not archived session failed
C10_Witness ==
    /\ last.op = "archiveFail" /\ last.arg = "archived"
    /\ activeSessionId # NoId /\ activeSessionId.v = last.id
    /\ last.id \in SessionIds(sessions)
    /\ ~Find(sessions, last.id).isArchived

\* ----------------------------------------------------------------------- C11
\* C11: commitRename changes the local title only after the Gateway title
\* mutation succeeds: issuing the call changes no session, and when the call
\* fails the sessions (their titles included) stay as they were and the
\* title edit is over, its draft discarded.
C11_TitleOnlyOnSuccess ==
    [][ /\ last'.op \in {"renameCall", "renameFail"} => sessions' = sessions
        /\ last'.op = "renameFail" => editingId' = NoEditing ]_vars

\* the rename of a listed session to a title other than its own failed
C11_Witness ==
    /\ last.op = "renameFail"
    /\ last.id \in SessionIds(sessions)
    /\ titleDraft = <<"c">>
    /\ Find(sessions, last.id).title = <<"a">>
    /\ editingId = NoEditing

\* ----------------------------------------------------------------------- C12
\* C12: a committed rename of session N whose draft is empty or blank leaves
\* the session with the title "Session N".
C12_BlankDraftFallsBack ==
    (last.op = "renameOk" /\ last.arg = <<>>) =>
        \A i \in 1..Len(sessions) :
            sessions[i].id = last.id =>
                sessions[i].title =
                    <<"S", "e", "s", "s", "i", "o", "n", " ">>
                    \o (IF last.id = 1 THEN <<"1">> ELSE <<"2">>)

\* the rename of listed session 2 with a draft of two blanks succeeded
C12_Witness ==
    /\ last.op = "renameOk" /\ last.arg = <<>> /\ last.id = 2
    /\ titleDraft = <<" ", " ">>
    /\ 2 \in SessionIds(sessions)
    /\ Find(sessions, 2).title = <<"S", "e", "s", "s", "i", "o", "n", " ", "2">>

\* ----------------------------------------------------------------------- C13
\* C13: in every reachable state at most one row shows a title-edit field.
C13_OneTitleField == Cardinality(TitleInputs(sessions, editingId)) <= 1

\* ----------------------------------------------------------------------- C14
\* C14: a Backspace/Delete key pressed while a text input has the focus (the
\* search box, the title field, the command input, the rich-text editor)
\* issues no archive mutation.
C14_NoArchiveFromTextInput ==
    [][ (last'.op = "key" /\ last'.arg \in TextInputs) => pending' = pending ]_vars

C16_SetFavoriteSetsBoth ==
    [][ /\ last'.op = "unfavorite" =>
              /\ last'.id \notin favoriteIds'
              /\ \A i \in 1..Len(sessions') :
                    sessions'[i].id = last'.id => ~sessions'[i].isFavorite
              /\ UNCHANGED <<pending, renames, srvSessions>>
        /\ (last'.op = "archiveOk" /\ last'.arg = "favorites") =>
              /\ last'.id \in favoriteIds'
              /\ \A i \in 1..Len(sessions') :
                    sessions'[i].id = last'.id => sessions'[i].isFavorite
              /\ InFlight(pending') < InFlight(pending)
              /\ UNCHANGED <<renames, srvSessions>> ]_vars

\* a listed session was unfavorited right after it was made a favorite
C16_Witness ==
    /\ last.op = "unfavorite" /\ last.flag
    /\ last.id \in SessionIds(sessions)
    /\ ~Find(sessions, last.id).isFavorite
    /\ last.id \notin favoriteIds

\* ----------------------------------------------------------------------- C20
\* C20: a moveTo(id, bucket) whose Gateway call succeeded ends with
\* isArchived = true and isFavorite = false for the archived bucket,
\* isArchived = false and isFavorite = true for favorites, and both false
\* for the active bucket, whatever the session was before.
C20_MoveEndsInBucket ==
    last.op = "archiveOk" =>
        \A i \in 1..Len(sessions) :
            sessions[i].id = last.id =>
                /\ sessions[i].isArchived = (last.arg = "archived")
                /\ sessions[i].isFavorite = (last.arg = "favorites")

\* a listed favorite was moved to the active bucket
C20_Witness ==
    /\ last.op = "archiveOk" /\ last.arg = "sessions" /\ last.flag
    /\ last.id \in SessionIds(sessions)
    /\ ~Find(sessions, last.id).isFavorite
    /\ ~Find(sessions, last.id).isArchived

\* ----------------------------------------------------------------------- C17
\* C17: when a directory refresh is applied, each incoming session that was
\* listed before keeps its local isFavorite, whatever the response reports,
\* and each incoming session that was not listed gets isFavorite equal to
\* the membership of its id in FavoriteSet.
C17_MergeKeepsLocalFavorite ==
    [][ (last'.op = "dirResolve" /\ last'.flag) =>
          \A i \in 1..Len(sessions') :
              LET s == sessions'[i] IN
              IF s.id \in SessionIds(sessions)
              THEN s.isFavorite = Find(sessions, s.id).isFavorite
              ELSE s.isFavorite = (s.id \in favoriteIds) ]_vars

\* a refresh was applied to a session listed before, whose local isFavorite
\* is not the one the backend reports
C17_Witness ==
    /\ last.op = "dirResolve" /\ last.flag
    /\ \E i \in 1..Len(sessions) :
          /\ sessions[i].id \in last.arg
          /\ sessions[i].isFavorite # ServerFavorite(sessions[i].id)

\* ----------------------------------------------------------------------- C18
\* C18: a failed fetch (directory refresh or notebook refresh) changes
\* nothing: the session list and its order, every flag, the selection, the
\* notebook and every EditBuffer are the same after it as before.
C18_FailedFetchChangesNothing ==
    [][ last'.op \in {"dirFail", "nbFail"} =>
          UNCHANGED <<sessions, activeSessionId, editingId, titleDraft,
                      favoriteIds, nbSessions, sessionState>> ]_vars

\* a directory fetch failed while sessions are listed, one is selected and
\* an EditBuffer is dirty
C18_Witness ==
    /\ last.op = "dirFail"
    /\ mounted /\ nbMounted
    /\ Len(sessions) = 2
    /\ activeSessionId # NoId
    /\ \E id \in DOMAIN sessionState : sessionState[id].dirty

\* ----------------------------------------------------------------------- C19
\* C19: once a view is unmounted, no step changes its state (so no response
\* of a fetch in flight at teardown does) and no step issues a fetch for it.
C19_NothingAfterUnmount ==
    [][ /\ ~mounted =>
              /\ UNCHANGED <<sessions, activeSessionId, editingId, titleDraft,
                             favoriteIds>>
              /\ InFlight(fetches') <= InFlight(fetches)
        /\ ~nbMounted =>
              /\ UNCHANGED <<nbSessions, sessionState>>
              /\ InFlight(nbFetches') <= InFlight(nbFetches) ]_vars

\* both views are unmounted and a directory response that was in flight at
\* teardown has resolved and was dropped
C19_Witness ==
    /\ ~mounted /\ ~nbMounted
    /\ last.op = "dirResolve" /\ ~last.flag
    /\ Len(sessions) = 2

\* ----------------------------------------------------------------------- C21
\* C21: archiving is idempotent on local state: when the continuation of an
\* archive call runs setArchiveState(id, true) for a session that is already
\* archived in the list, the session list (every flag) and favoriteIds are
\* the same after it as before.
C21_ArchiveIdempotent ==
    [][ (last'.op = "archiveOk" /\ last'.arg = "archived"
           /\ FindArchived(sessions, last'.id)) =>
          UNCHANGED <<sessions, favoriteIds>> ]_vars

\* ----------------------------------------------------------------------- C22
\* C22 as stated: after every change of favoriteIds the durable entry holds
\* the full current set: loading it yields favoriteIds.
C22_EntryIsFavoriteSet ==
    [][ favoriteIds' # favoriteIds =>
          loadFavorites(storage'.entry) = favoriteIds' ]_vars

\* C22: after every change of favoriteIds, if the store accepts the write,
\* the durable entry is the serialization of the full current set and
\* loading it yields favoriteIds; if the store rejects the write, the entry
\* is left as it was.
C22_EntryRewrittenIfWritable ==
    [][ favoriteIds' # favoriteIds =>
          IF storage.writable
          THEN /\ storage'.entry = TextEntry(JsonStringifyIds(SortedIds(favoriteIds')))
               /\ loadFavorites(storage'.entry) = favoriteIds'
          ELSE storage' = storage ]_vars

\* a favorite was removed from a set of two: the entry now holds the one
\* that is left
C22_Witness ==
    /\ last.op = "unfavorite"
    /\ storage.writable
    /\ Cardinality(favoriteIds) = 1
    /\ loadFavorites(storage.entry) = favoriteIds

\* ----------------------------------------------------------------------- C23
\* C23: when the durable entry is absent, unreadable or not a serialized
\* array at startup, favoriteIds starts empty and no error is raised.
C23_CorruptEntryLoadsEmpty ==
    (last.op = "startup" /\ last.arg \in CorruptEntries) =>
        (favoriteIds = {} /\ ~unhandled)

\* the page was reloaded over an entry that is not valid JSON, which the
\* store would not let the client overwrite
C23_Witness ==
    /\ last.op = "startup" /\ last.id = 1
    /\ last.arg = TextEntry(<<"[", "1", ",", "]">>)
    /\ ~last.flag
    /\ favoriteIds = {}

\* ----------------------------------------------------------------------- C24
\* the literal query occurs in the text at index i, letters compared
\* case-insensitively
LiteralAt(text, query, i) ==
    /\ i + Len(query) - 1 <= Len(text)
    /\ \A k \in 1..Len(query) : Lower(text[i + k - 1]) = Lower(query[k])

\* the text from index i on, every occurrence of the literal query found
\* from left to right wrapped in a marker, everything escaped
RECURSIVE Marked(_, _, _)
Marked(text, query, i) ==
    IF i > Len(text) THEN <<>>
    ELSE IF LiteralAt(text, query, i)
    THEN <<MarkOpen>> \o escapeHtml(SubSeq(text, i, i + Len(query) - 1))
             \o <<MarkClose>> \o Marked(text, query, i + Len(query))
    ELSE <<EscapeChar(text[i])>> \o Marked(text, query, i + 1)

\* the paragraph text and the stored rendering of the session shown
ShownText == nbSessions[1].blocks[1].text
ShownHtml == sessionState[1].html

\* C24: highlightText(text, term) is the escaped text when the term is empty
\* after trimming, and otherwise the text with every non-overlapping
\* case-insensitive occurrence of the literal trimmed term wrapped in a
\* highlight marker and everything escaped; it has a result for every term.
C24_HighlightLiteral ==
    nbSessions # <<>> =>
        ShownHtml = <<"<p>">>
            \o (IF Trim(nbRefreshTerm) = <<>> THEN escapeHtml(ShownText)
                ELSE Marked(ShownText, Trim(nbRefreshTerm), 1))
            \o <<"</p>">>

\* the term is "." and the text "A.<": only the dot is marked
C24_Witness ==
    /\ nbSessions # <<>>
    /\ nbRefreshTerm = <<".">>
    /\ ShownText = <<"A", ".", "<">>
    /\ ShownHtml = <<"<p>", "A", MarkOpen, ".", MarkClose, "&lt;", "</p>">>

\* ----------------------------------------------------------------------- C25
\* the ids a list shows
IdsOf(view) == {view[i].id : i \in 1..Len(view)}

SessionsList == nonFavorites(sessions, reverseSessions)
FavoritesList == favorites(sessions, reverseSessions)
ArchivedList == archived(sessions, reverseSessions)

\* the number of lists that show session id
ListsShowing(id) ==
    Cardinality({v \in {"sessions", "favorites", "archived"} :
        id \in (CASE v = "sessions"  -> IdsOf(SessionsList)
                  [] v = "favorites" -> IdsOf(FavoritesList)
                  [] OTHER           -> IdsOf(ArchivedList))})

\* C25 as stated: the Sessions list holds the non-archived non-favorite
\* sessions, the Favorites list the non-archived favorites, the Archived list
\* the archived ones, and each listed session is in exactly one list.
C25_ViewsPartition ==
    \A i \in 1..Len(sessions) :
        LET x == sessions[i] IN
        /\ x.id \in IdsOf(SessionsList) <=> (~x.isArchived /\ ~x.isFavorite)
        /\ x.id \in IdsOf(FavoritesList) <=> (~x.isArchived /\ x.isFavorite)
        /\ x.id \in IdsOf(ArchivedList) <=> x.isArchived
        /\ ListsShowing(x.id) = 1

\* C25: the Sessions list holds every non-archived session, favorites
\* included; the Favorites list the non-archived favorites; the Archived list
\* the archived ones. An archived session and a non-favorite one are in
\* exactly one list, a non-archived favorite in two.
C25_ViewsAsComputed ==
    \A i \in 1..Len(sessions) :
        LET x == sessions[i] IN
        /\ x.id \in IdsOf(SessionsList) <=> ~x.isArchived
        /\ x.id \in IdsOf(FavoritesList) <=> (~x.isArchived /\ x.isFavorite)
        /\ x.id \in IdsOf(ArchivedList) <=> x.isArchived
        /\ ListsShowing(x.id) = IF ~x.isArchived /\ x.isFavorite THEN 2 ELSE 1

\* one session is a favorite shown in two lists, the other is archived
C25_Witness ==
    /\ Len(sessions) = 2
    /\ Len(FavoritesList) = 1
    /\ Len(ArchivedList) = 1
    /\ ListsShowing(FavoritesList[1].id) = 2
    /\ ListsShowing(ArchivedList[1].id) = 1

\* ----------------------------------------------------------------------- C26
\* the index of session id in the fetched list
Pos(id) == CHOOSE i \in 1..Len(sessions) : sessions[i].id = id

\* the list shows its sessions in fetch order, or in the reverse of it
InOrder(view, rev) ==
    \A i \in 1..Len(view), j \in 1..Len(view) :
        i < j => IF rev THEN Pos(view[i].id) > Pos(view[j].id)
                 ELSE Pos(view[i].id) < Pos(view[j].id)

\* C26: each of the three lists shows its sessions in fetch order when
\* reverseSessions is off and in the reverse of fetch order when it is on.
C26_ViewsFollowReversal ==
    /\ InOrder(SessionsList, reverseSessions)
    /\ InOrder(FavoritesList, reverseSessions)
    /\ InOrder(ArchivedList, reverseSessions)

\* reversal is on and the Archived list shows two sessions, last fetched
\* first
C26_Witness ==
    /\ reverseSessions
    /\ Len(ArchivedList) = 2
    /\ ArchivedList[1].id = sessions[2].id

\* ----------------------------------------------------------------------- C27
\* C27: whenever a Notebook response is applied, every session it carries
\* that was not dirty ends with the rendering of the blocks of that response
\* as its content, whatever responses were applied before: with overlapping
\* refreshes the one that resolves last determines the content.
C27_LastResolvedWins ==
    [][ (last'.op = "nbResolve" /\ last'.flag) =>
          \A id \in DataIds(nbSessions') :
              (id \notin DOMAIN sessionState \/ ~sessionState[id].dirty) =>
                  sessionState'[id] =
                      [html  |-> blocksToHtml(BlocksOf(nbSessions', id), nbRefreshTerm),
                       dirty |-> FALSE] ]_vars

\* the response applied last carries an older block list of session 1 than
\* the response applied before it, and the older rendering is shown
C27_Witness ==
    /\ last.op = "nbResolve" /\ last.flag
    /\ last.arg # <<>> /\ nbSessions # <<>>
    /\ VersionOf(BlocksOf(last.arg, 1)) = 2
    /\ VersionOf(BlocksOf(nbSessions, 1)) = 1
    /\ sessionState[1] = [html |-> blocksToHtml(Versions[1], nbRefreshTerm), dirty |-> FALSE]

\* ----------------------------------------------------------------------- C28
\* C28: a dirty EditBuffer is never discarded or reset: in every step (a
\* refresh, a search-term change, a selection, a reversal toggle, a response
\* that no longer carries the session) a dirty entry stays, stays dirty,
\* and its html changes only by a focused editor update of that session.
C28_DirtyNeverLost ==
    [][ \A id \in DOMAIN sessionState :
          sessionState[id].dirty =>
              /\ id \in DOMAIN sessionState'
              /\ sessionState'[id].dirty
              /\ sessionState'[id].html # sessionState[id].html =>
                    (last'.op = "onUpdate" /\ last'.id = id /\ last'.flag) ]_vars

\* a response without session 2 was applied while its EditBuffer is dirty,
\* after the search term was changed, the order reversed and a session
\* selected by a click
C28_Witness ==
    /\ last.op = "nbResolve" /\ last.flag
    /\ 2 \in DOMAIN sessionState
    /\ sessionState[2].dirty
    /\ 2 \notin DataIds(nbSessions)
    /\ 2 \in DataIds(last.arg)
    /\ searchTerm # nbRefreshTerm
    /\ reverseSessions
    /\ activeSessionId.t = "str"

\* ----------------------------------------------------------------------- C29
\* C29: a poll timer keeps running whatever the fetches do: right after a
\* failed refresh a tick can issue a new fetch, and, fetches not failing for
\* ever, a failed refresh of a mounted view is followed by an applied one
\* (or by the view's unmount).
C29_RetryAfterFailure ==
    /\ []((last.op = "nbFail" /\ nbMounted) => ENABLED NbTick)
    /\ []((last.op = "dirFail" /\ mounted) => ENABLED DirTick)
    /\ (last.op = "nbFail" /\ nbMounted)
           ~> (~nbMounted \/ (last.op = "nbResolve" /\ last.flag))
    /\ (last.op = "dirFail" /\ mounted)
           ~> (~mounted \/ (last.op = "dirResolve" /\ last.flag))

\* the first directory fetch failed: nothing is listed, nothing is in flight
C29_Witness ==
    /\ last.op = "dirFail"
    /\ mounted /\ nbMounted
    /\ sessions = <<>>
    /\ fetches = EmptyBag

\* ----------------------------------------------------------------------- C30
\* the step changes the selection, the rename mode or favoriteIds
OtherDepsChanged ==
    \/ activeSessionId' # activeSessionId
    \/ editingId' # editingId
    \/ favoriteIds' # favoriteIds

\* the fetch refresh() issues in the state after the step
FreshFetch == [data |-> SessionData(srvSessions', searchTerm'), live |-> TRUE]

C31_CommitReturnsToViewing ==
    /\ [][ (last'.op \in {"renameOk", "renameFail"} /\ mounted)
              => editingId' = NoEditing ]_vars
    /\ (last.op \in {"renameCall", "commitReturn"}) ~> (editingId = NoEditing)

\* ----------------------------------------------------------------------- C32
\* the titles of the listed sessions, by id
TitlesOf(ss) == {<<ss[i].id, ss[i].title>> : i \in 1..Len(ss)}

\* C32: a cancelEditing step (Escape in the title field) ends rename mode,
\* issues neither a title nor an archive mutation, leaves the backend's
\* sessions as they are and changes the title of no listed session.
C32_CancelChangesNoTitle ==
    [][ cancelEditing =>
          /\ editingId' = NoEditing
          /\ renames' = renames
          /\ pending' = pending
          /\ srvSessions' = srvSessions
          /\ TitlesOf(sessions') = TitlesOf(sessions) ]_vars

\* Escape was pressed after a draft was typed and committed: the title call
\* of the commit is still in flight and no row is being renamed
C32_Witness ==
    /\ last = Other
    /\ editingId = NoEditing
    /\ renames # EmptyBag
    /\ titleDraft = <<"c">>
    /\ \A i \in 1..Len(sessions) : sessions[i].title # <<"c">>

\* ----------------------------------------------------------------------- C33
\* every listed session shows the backend's title and isArchived
AgreesWithServer ==
    \A i \in 1..Len(sessions) :
        /\ sessions[i].title = srvSessions[sessions[i].id].title
        /\ sessions[i].isArchived = srvSessions[sessions[i].id].isArchived

\* no mutation is in flight
NoMutationInFlight == pending = EmptyBag /\ renames = EmptyBag

\* C33: if from some point on the backend's sessions no longer change and
\* no mutation is in flight, while the directory keeps polling and its
\* fetches keep succeeding, then from some point on every listed session
\* shows the backend's title and isArchived.
C33_SettlesToServer ==
    (/\ <>[][srvSessions' = srvSessions]_vars
     /\ <>[]NoMutationInFlight)
        => <>[]AgreesWithServer

\* a refresh has brought the list to a backend that applied a rename to the
\* empty title and a move to the archive, with nothing left in flight
C33_Witness ==
    /\ last.op = "dirResolve" /\ last.flag
    /\ NoMutationInFlight
    /\ fetches = EmptyBag
    /\ srvSessions[2].title = <<>>
    /\ srvSessions[2].isArchived
    /\ Len(sessions) = 1
    /\ AgreesWithServer

\* ----------------------------------------------------------------------- C34
\* C34: a commit of the title field is never followed at once by a second
\* commit of the same row: the two calls would belong to one editing
\* episode, the row being in rename mode from the first to the second.
C34_OneMutationPerEpisode ==
    [][ (last.op = "renameCall" /\ editingId = last.id)
           => ~(last'.op = "renameCall" /\ last'.id = last.id) ]_vars

\* ----------------------------------------------------------------------- C35
\* C35: when an archive call completes for a session other than the one
\* selected at that moment, the selection stays as it is.
C35_OtherSelectionKept ==
    [][ (/\ last'.op = "archiveOk"
         /\ activeSessionId # NoId
         /\ activeSessionId.v # last'.id) =>
            activeSessionId' = activeSessionId ]_vars

\* ----------------------------------------------------------------------- C36
\* C36: right after a successful rename the listed session has the title
\* that was sent to the backend.
C36_LocalTitleIsSentTitle ==
    (last.op = "renameOk" /\ last.id \in SessionIds(sessions)) =>
        Find(sessions, last.id).title = last.arg

\* ----------------------------------------------------------------------- C37
\* C37: every listed session has isFavorite exactly when its id is in
\* favoriteIds.
C37_FavoriteIffInSet ==
    \A i \in 1..Len(sessions) :
        sessions[i].isFavorite <=> sessions[i].id \in favoriteIds

\* a move to the favorites bucket was applied: one listed session is a
\* favorite and in the set, the other is neither
C37_Witness ==
    /\ last.op = "archiveOk" /\ last.arg = "favorites"
    /\ Len(sessions) = 2
    /\ \E i, j \in 1..2 :
          /\ sessions[i].id = last.id
          /\ sessions[i].isFavorite /\ sessions[i].id \in favoriteIds
          /\ ~sessions[j].isFavorite /\ sessions[j].id \notin favoriteIds

C39_RefreshKeepsFavoritesAndDraft ==
    [][ last'.op \in {"dirResolve", "dirFail"} =>
          UNCHANGED <<favoriteIds, storage, editingId, titleDraft>> ]_vars

\* a response was applied during a rename; it does not list a favorite,
\* whose id is still in favoriteIds
C39_Witness ==
    /\ last.op = "dirResolve" /\ last.flag
    /\ sessions # <<>>
    /\ editingId # NoEditing
    /\ \E id \in favoriteIds : id \notin SessionIds(sessions)

\* ----------------------------------------------------------------------- C40
\* the rendering without its highlight markers
Unmarked(html) == SelectSeq(html, LAMBDA c : c \notin {MarkOpen, MarkClose})

\* the rendering of the paragraph shown, inside its <p> and </p>
ShownInner == SubSeq(ShownHtml, 2, Len(ShownHtml) - 1)

\* C40: for every text and term, highlightText(text, term) without its
\* markers is escapeHtml(text): no character of the escaped text is dropped,
\* repeated or moved.
C40_UnmarkedIsEscaped ==
    nbSessions # <<>> =>
        /\ ShownHtml[1] = "<p>" /\ ShownHtml[Len(ShownHtml)] = "</p>"
        /\ Unmarked(ShownInner) = escapeHtml(ShownText)

\* the text "A<a" under the term "a": two marked matches around an escaped <
C40_Witness ==
    /\ nbSessions # <<>>
    /\ ShownText = <<"A", "<", "a">>
    /\ Trim(nbRefreshTerm) = <<"a">>
    /\ ShownInner = <<MarkOpen, "A", MarkClose, "&lt;", MarkOpen, "a", MarkClose>>

====
